---------------------------- MODULE Spec2Model ----------------------------
(***************************************************************************)
(* Verification model of the weather dashboard app (weather-app.ts) of     *)
(* mcp-map-server-ui: the persisted view state store, the favorites and    *)
(* search-history manager, the viewport-height negotiation and the         *)
(* progressive insight stream.                                             *)
(*                                                                         *)
(* The subsystems share no mutable state, so each has its own              *)
(* specification over the one set of variables:                            *)
(*   SpecStore    favorites / history / save / load, small location set    *)
(*   SpecHistory  the search history with enough locations to overflow it  *)
(*   SpecLoad     loadPersistedState as a function of the stored string    *)
(*   SpecView     forecast / log toggles and the size reports              *)
(*   SpecStream   the phase timers of displayProgressiveInsights           *)
(***************************************************************************)
EXTENDS Integers, Sequences, FiniteSets, TLC

(***************************************************************************)
(* Bounds of the model.                                                    *)
(***************************************************************************)
\* Date.now() is read from a clock the environment advances up to MaxNow.
MaxNow == 1
\* Number of addToSearchHistory calls explored by SpecHistory.
MaxSearches == 12
\* Of these, how many may repeat a location that is already in the history.
MaxRepeats == 1
\* setTimeout(..., 0) callbacks of renderWeather that may be pending at once.
MaxPendingSetups == 2
\* show-weather calls of searchLocation that may be in flight at once.
MaxInFlight == 1
\* Insight streams requested in one run.
MaxStreams == 1
\* The stream clock stops at MaxClock units of 500 ms.
MaxClock == 12

(***************************************************************************)
(* Strings.  A string is a sequence of characters; toLowerCase maps every  *)
(* upper-case letter to its lower-case letter and leaves the rest alone.   *)
(***************************************************************************)
UpperLetters == <<"A", "B", "C", "D", "E", "F", "G", "H", "I", "J", "K">>
LowerLetters == <<"a", "b", "c", "d", "e", "f", "g", "h", "i", "j", "k">>

toLowerCaseChar(c) ==
    IF \E i \in DOMAIN UpperLetters : UpperLetters[i] = c
    THEN LowerLetters[CHOOSE i \in DOMAIN UpperLetters : UpperLetters[i] = c]
    ELSE c

toLowerCase(s) == [i \in DOMAIN s |-> toLowerCaseChar(s[i])]

\* Two strings that differ at most in letter case.
SameIgnoringCase(s, t) == toLowerCase(s) = toLowerCase(t)

\* Locations of SpecStore: two places, "ab" in two spellings and "b1".
Locations == { <<"a", "b">>, <<"A", "b">>, <<"B", "1">> }
\* The location SpecStore searches for.
SearchedLocations == { <<"A", "b">> }

\* Locations of SpecHistory: eleven places, one more than the history holds,
\* each as the server spells it.
HistoryPlaces == { <<UpperLetters[i]>> : i \in DOMAIN UpperLetters }

\* Coordinates (latitude, longitude) a weather result may carry.
Coordinates == { <<0, 1>>, <<1, 0>> }

(***************************************************************************)
(* JavaScript values. Scalars carry their type; arrays are sequences.      *)
(***************************************************************************)
Undefined == [t |-> "undefined"]
Null      == [t |-> "null"]

(***************************************************************************)
(* JSON documents. JSON.stringify writes a PersistedWeatherState as an     *)
(* object whose array fields become JSON arrays and in which a field whose *)
(* value is undefined is left out; JSON.parse reads the text back or       *)
(* throws a SyntaxError on text that is not JSON.                          *)
(***************************************************************************)
JAbsent    == [t |-> "absent"]
JNull      == [t |-> "null"]
JString(s) == [t |-> "string", str |-> s]
JNumber(n) == [t |-> "number", num |-> n]
JArray(xs) == [t |-> "array", items |-> xs]
JObject(f, h, l) ==
    [t |-> "object", favorites |-> f, searchHistory |-> h, lastLocation |-> l]

\* A stored string: the empty string, text that is not JSON, or the text of
\* a JSON document.
EmptyText   == [text |-> "empty"]
InvalidText == [text |-> "invalid"]
JsonText(d) == [text |-> "json", doc |-> d]

\* JSON.stringify(state) for a PersistedWeatherState.
JSONstringify(state) ==
    JsonText(JObject(JArray(state.favorites),
                     JArray(state.searchHistory),
                     IF state.lastLocation = Undefined
                     THEN JAbsent
                     ELSE state.lastLocation))

\* JSON.parse(text): [threw, value].
JSONparse(stored) ==
    IF stored.text = "json"
    THEN [threw |-> FALSE, value |-> stored.doc]
    ELSE [threw |-> TRUE, value |-> JNull]

\* Array.isArray(v) for a property read from a parsed document.
ArrayIsArray(v) == v.t = "array"

\* state.<field> of a parsed value: objects have properties, the other
\* values (numbers, strings, booleans, arrays) have none of these names.
Property(value, field) ==
    IF value.t = "object"
    THEN (CASE field = "favorites"     -> value.favorites
            [] field = "searchHistory" -> value.searchHistory
            [] field = "lastLocation"  -> value.lastLocation)
    ELSE JAbsent

\* The JavaScript value of a parsed property: undefined when the property
\* is missing, the array of an array, the scalar itself otherwise.
FromJSON(v) ==
    CASE v.t = "absent" -> Undefined
      [] v.t = "array"  -> v.items
      [] OTHER          -> v

(***************************************************************************)
(* The persisted view state store.                                         *)
(***************************************************************************)
NoUUID == "null"
UUIDs  == {"u1", "u2"}

StorageKey(uuid) == <<"weather-state-", uuid>>
StorageKeys == { StorageKey(u) : u \in UUIDs }

defaultState ==
    [favorites |-> <<>>, searchHistory |-> <<>>, lastLocation |-> Undefined]

\* loadPersistedState() without its try/catch: the exception of JSON.parse
\* or of the property read escapes.
loadPersistedStateNoCatch(uuid, storage) ==
    IF uuid = NoUUID THEN [threw |-> FALSE, state |-> defaultState]
    ELSE LET stored == storage[StorageKey(uuid)] IN
         IF stored = Null \/ stored = EmptyText
         THEN [threw |-> FALSE, state |-> defaultState]
         ELSE LET parsed == JSONparse(stored) IN
              IF parsed.threw \/ parsed.value.t = "null"
              THEN [threw |-> TRUE, state |-> defaultState]
              ELSE LET f == Property(parsed.value, "favorites")
                       h == Property(parsed.value, "searchHistory")
                       l == Property(parsed.value, "lastLocation")
                   IN [threw |-> FALSE,
                       state |->
                         [favorites     |-> IF ArrayIsArray(f)
                                            THEN FromJSON(f) ELSE <<>>,
                          searchHistory |-> IF ArrayIsArray(h)
                                            THEN FromJSON(h) ELSE <<>>,
                          lastLocation  |-> FromJSON(l)]]

\* loadPersistedState() that takes state.favorites as it is stored.
loadPersistedStateNoArrayCheck(uuid, storage) ==
    IF uuid = NoUUID THEN [threw |-> FALSE, state |-> defaultState]
    ELSE LET stored == storage[StorageKey(uuid)] IN
         IF stored = Null \/ stored = EmptyText
         THEN [threw |-> FALSE, state |-> defaultState]
         ELSE LET parsed == JSONparse(stored) IN
              IF parsed.threw \/ parsed.value.t = "null"
              THEN [threw |-> FALSE, state |-> defaultState]
              ELSE LET f == Property(parsed.value, "favorites")
                       h == Property(parsed.value, "searchHistory")
                       l == Property(parsed.value, "lastLocation")
                   IN [threw |-> FALSE,
                       state |->
                         [favorites     |-> FromJSON(f),
                          searchHistory |-> IF ArrayIsArray(h)
                                            THEN FromJSON(h) ELSE <<>>,
                          lastLocation  |-> FromJSON(l)]]

\* loadPersistedState(): [threw, state], read with the given view identifier
\* from the given storage (a function from key to Null or a stored string).
loadPersistedState(uuid, storage) ==
    IF uuid = NoUUID THEN [threw |-> FALSE, state |-> defaultState]
    ELSE LET stored == storage[StorageKey(uuid)] IN
         IF stored = Null \/ stored = EmptyText
         THEN [threw |-> FALSE, state |-> defaultState]
         ELSE LET parsed == JSONparse(stored) IN
              IF parsed.threw \/ parsed.value.t = "null"
              THEN \* SyntaxError, or TypeError reading a property of null:
                   \* both are caught and the default is returned
                   [threw |-> FALSE, state |-> defaultState]
              ELSE LET f == Property(parsed.value, "favorites")
                       h == Property(parsed.value, "searchHistory")
                       l == Property(parsed.value, "lastLocation")
                   IN [threw |-> FALSE,
                       state |->
                         [favorites     |-> IF ArrayIsArray(f)
                                            THEN FromJSON(f) ELSE <<>>,
                          searchHistory |-> IF ArrayIsArray(h)
                                            THEN FromJSON(h) ELSE <<>>,
                          lastLocation  |-> FromJSON(l)]]

(***************************************************************************)
(* Favorites and search history: the state transitions on persistedState.  *)
(***************************************************************************)
\* Array.prototype.slice(0, n)
Slice0(xs, n) == SubSeq(xs, 1, IF Len(xs) < n THEN Len(xs) ELSE n)

\* A line written to the console or sent through log.info/warn/error.
Line(level, message) == [level |-> level, message |-> message]

HISTORY_LIMIT == 10

\* savePersistedState(state) without its try/catch.
savePersistedStateNoCatch(state, uuid, storage, quotaExceeded) ==
    IF uuid = NoUUID
    THEN [threw |-> FALSE, storage |-> storage, console |-> <<>>]
    ELSE IF quotaExceeded
         THEN [threw |-> TRUE, storage |-> storage, console |-> <<>>]
         ELSE [threw |-> FALSE,
               storage |-> [storage EXCEPT
                              ![StorageKey(uuid)] = JSONstringify(state)],
               console |-> <<Line("log", "Saved persisted state")>>]

\* savePersistedState(state): the storage afterwards, whether an exception
\* escaped, and the console lines. setItem throws when the quota is
\* exceeded; the exception is caught and a warning is written.
savePersistedState(state, uuid, storage, quotaExceeded) ==
    IF uuid = NoUUID
    THEN [threw |-> FALSE, storage |-> storage, console |-> <<>>]
    ELSE IF quotaExceeded
         THEN [threw |-> FALSE, storage |-> storage,
               console |-> <<Line("warn", "Failed to save persisted state")>>]
         ELSE [threw |-> FALSE,
               storage |-> [storage EXCEPT
                              ![StorageKey(uuid)] = JSONstringify(state)],
               console |-> <<Line("log", "Saved persisted state")>>]

\* isFavorited(location) comparing the names as they are spelled.
isFavoritedCaseSensitive(state, location) ==
    \E i \in DOMAIN state.favorites :
        state.favorites[i].location = location

\* isFavorited(location)
isFavorited(state, location) ==
    \E i \in DOMAIN state.favorites :
        toLowerCase(state.favorites[i].location) = toLowerCase(location)

\* addToSearchHistory(location) that removes only the entries spelled the
\* same way.
addToSearchHistoryCaseSensitive(state, uuid, storage, quotaExceeded, location, t) ==
    LET keep(entry) == entry.location /= location
        filtered  == SelectSeq(state.searchHistory, keep)
        unshifted == <<[location |-> location, timestamp |-> t]>> \o filtered
        next  == [state EXCEPT
                    !.searchHistory = Slice0(unshifted, HISTORY_LIMIT)]
        saved == savePersistedState(next, uuid, storage, quotaExceeded)
    IN [state |-> next, storage |-> saved.storage, threw |-> saved.threw,
        console |-> saved.console]

\* addToSearchHistory(location) at time t: the in-memory state, the storage,
\* the console lines and whether an exception escaped.
addToSearchHistory(state, uuid, storage, quotaExceeded, location, t) ==
    LET keep(entry) == toLowerCase(entry.location) /= toLowerCase(location)
        filtered  == SelectSeq(state.searchHistory, keep)
        unshifted == <<[location |-> location, timestamp |-> t]>> \o filtered
        next  == [state EXCEPT
                    !.searchHistory = Slice0(unshifted, HISTORY_LIMIT)]
        saved == savePersistedState(next, uuid, storage, quotaExceeded)
    IN [state |-> next, storage |-> saved.storage, threw |-> saved.threw,
        console |-> saved.console]

\* addToFavorites(...) that looks for the name as it is spelled.
addToFavoritesCaseSensitive(state, uuid, storage, quotaExceeded, location, latitude, longitude, t) ==
    IF \E i \in DOMAIN state.favorites :
          state.favorites[i].location = location
    THEN [state |-> state, storage |-> storage, threw |-> FALSE,
          console |-> <<Line("warning", "Location already in favorites")>>]
    ELSE LET next == [state EXCEPT !.favorites =
                        Append(@, [location  |-> location,
                                   latitude  |-> latitude,
                                   longitude |-> longitude,
                                   addedAt   |-> t])]
             saved == savePersistedState(next, uuid, storage, quotaExceeded)
         IN [state |-> next, storage |-> saved.storage,
             threw |-> saved.threw,
             console |-> IF saved.threw THEN saved.console
                         ELSE saved.console \o
                              <<Line("info", "Added to favorites")>>]

\* addToFavorites(...) that replaces the entry of a location that is
\* already a favorite, and saves.
addToFavoritesUpsert(state, uuid, storage, quotaExceeded, location, latitude, longitude, t) ==
    LET keep(fav) == toLowerCase(fav.location) /= toLowerCase(location)
        exists == \E i \in DOMAIN state.favorites :
                     ~keep(state.favorites[i])
        next == [state EXCEPT !.favorites =
                   Append(SelectSeq(@, keep),
                          [location  |-> location,
                           latitude  |-> latitude,
                           longitude |-> longitude,
                           addedAt   |-> t])]
        saved == savePersistedState(next, uuid, storage, quotaExceeded)
    IN [state |-> next, storage |-> saved.storage, threw |-> saved.threw,
        console |-> IF exists
                    THEN <<Line("warning", "Location already in favorites")>>
                    ELSE IF saved.threw THEN saved.console
                    ELSE saved.console \o
                         <<Line("info", "Added to favorites")>>]

\* addToFavorites(location, latitude, longitude) at time t.
addToFavorites(state, uuid, storage, quotaExceeded, location, latitude, longitude, t) ==
    IF \E i \in DOMAIN state.favorites :
          toLowerCase(state.favorites[i].location) = toLowerCase(location)
    THEN [state |-> state, storage |-> storage, threw |-> FALSE,
          console |-> <<Line("warning", "Location already in favorites")>>]
    ELSE LET next == [state EXCEPT !.favorites =
                        Append(@, [location  |-> location,
                                   latitude  |-> latitude,
                                   longitude |-> longitude,
                                   addedAt   |-> t])]
             saved == savePersistedState(next, uuid, storage, quotaExceeded)
         IN [state |-> next, storage |-> saved.storage,
             threw |-> saved.threw,
             console |-> IF saved.threw THEN saved.console
                         ELSE saved.console \o
                              <<Line("info", "Added to favorites")>>]

\* removeFromFavorites(location) that does not save.
removeFromFavoritesNoSave(state, uuid, storage, quotaExceeded, location) ==
    LET keep(fav) == toLowerCase(fav.location) /= toLowerCase(location)
        next  == [state EXCEPT !.favorites = SelectSeq(@, keep)]
    IN [state |-> next, storage |-> storage, threw |-> FALSE,
        console |-> <<Line("info", "Removed from favorites")>>]

\* removeFromFavorites(location)
removeFromFavorites(state, uuid, storage, quotaExceeded, location) ==
    LET keep(fav) == toLowerCase(fav.location) /= toLowerCase(location)
        next  == [state EXCEPT !.favorites = SelectSeq(@, keep)]
        saved == savePersistedState(next, uuid, storage, quotaExceeded)
    IN [state |-> next, storage |-> saved.storage, threw |-> saved.threw,
        console |-> IF saved.threw THEN saved.console
                    ELSE saved.console \o
                         <<Line("info", "Removed from favorites")>>]

(***************************************************************************)
(* Viewport height.                                                        *)
(***************************************************************************)
HEIGHT_BASE == 740
HEIGHT_FORECAST == 210
HEIGHT_LOG_COLLAPSED == 50
HEIGHT_LOG_EXPANDED == 349

\* totalHeight that counts the log panel only when it is expanded.
totalHeightNoCollapsedLog(forecastVisible, logExpanded) ==
    HEIGHT_BASE
    + (IF forecastVisible THEN HEIGHT_FORECAST ELSE 0)
    + (IF logExpanded THEN HEIGHT_LOG_EXPANDED ELSE 0)

\* totalHeight of updateViewportHeight, the argument of sendSizeChanged.
totalHeight(forecastVisible, logExpanded) ==
    HEIGHT_BASE
    + (IF forecastVisible THEN HEIGHT_FORECAST ELSE 0)
    + (IF logExpanded THEN HEIGHT_LOG_EXPANDED ELSE HEIGHT_LOG_COLLAPSED)

(***************************************************************************)
(* State.                                                                  *)
(***************************************************************************)
VARIABLES
    phase,              \* "loading" before connect() resolves, then "ready"
                        \* or, when initialize() failed, "failed"; "torn
                        \* down" once app.onteardown has run
    viewUUID,           \* NoUUID or the identifier of the first tool result
    persistedState,     \* the in-memory PersistedWeatherState
    localStorage,       \* key -> Null or the stored string
    quotaExceeded,      \* environment: localStorage.setItem throws
    now,                \* environment: the value Date.now() returns
    currentWeatherData, \* Null or the WeatherData last rendered
    isForecastVisible,
    isLogExpanded,
    dom,                \* the elements the handlers read and write
    pendingSetups,      \* the setTimeout(..., 0) callbacks of renderWeather
    hostUp,             \* environment: the host receives notifications
    inFlight,           \* show-weather calls of searchLocation not yet
                        \* answered
    lastSentHeight,     \* argument of the most recent sendSizeChanged call
    hostHeight,         \* the height the host last received
    sizeReports,        \* the heights sent by the operation last executed
    console,            \* lines written by the operation last executed
    uncaught,           \* that operation let an exception escape
    unhandled,          \* promises of host calls of that operation that
                        \* were rejected and that nothing awaits or catches
    lastOp,             \* the operation last executed and its argument
    loaded,             \* SpecLoad: the result of loadPersistedState()
    searches,           \* SpecHistory: calls made, repeats among them
    clock,              \* SpecStream: time in units of 500 ms
    streams,            \* SpecStream: the streams started so far
    comparison,         \* SpecCompare: the comparison set and its view
    globe,              \* SpecGlobe: the state of the globe app
    server,             \* SpecServer: the geocoding of the MCP server
    display,            \* SpecDisplay: the display mode of the two apps
    calls               \* SpecRace: the show-weather calls of searchLocation

storeVars == <<viewUUID, persistedState, localStorage, quotaExceeded, now>>
viewVars  == <<currentWeatherData, isForecastVisible, isLogExpanded, dom,
               pendingSetups, hostUp, inFlight, lastSentHeight, hostHeight,
               sizeReports>>
viewVarsButReports ==
    <<currentWeatherData, isForecastVisible, isLogExpanded, dom,
      pendingSetups, hostUp, inFlight, lastSentHeight, hostHeight>>
traceVars == <<console, uncaught, unhandled, lastOp>>
otherVars == <<loaded, searches, clock, streams, comparison, globe,
               server, display, calls>>
vars == <<phase, storeVars, viewVars, traceVars, otherVars>>

Op(name, location) == [op |-> name, location |-> location]
NoLocation == <<>>

\* No size has been reported yet.
NoHeight == 0

\* The page as loaded: no weather rendered, the log panel not yet set up.
InitialDom ==
    [rendered               |-> FALSE, \* weather-content holds a dashboard
     star                   |-> FALSE, \* favorite-btn shows the filled star
     forecastContentVisible |-> FALSE, \* forecast-content has class visible
     forecastHandlers       |-> 0,     \* click listeners, forecast-toggle-btn
     favoriteHandlers       |-> <<>>,  \* data captured by the listeners of
                                       \* favorite-btn, in registration order
     logCollapsed           |-> FALSE, \* logging-content has class collapsed
     loggingHandlers        |-> 0]     \* click listeners of logging-header

\* The view outside comparison mode, before any location is shown.
NoComparison ==
    [mode        |-> "single",  \* or "comparison"
     set         |-> <<>>,      \* the locations compared, in order
     cards       |-> <<>>,      \* the cards of the comparison grid
     shown       |-> NoLocation, \* the location of the single view
     displayMode |-> "inline"]  \* the display mode last requested

\* The camera positions of the globe: the default view and two others.
GlobeCameras == {0, 1, 2}

\* The globe app as loaded, in a browser that has shown no globe before.
InitialGlobe ==
    [viewer        |-> FALSE,  \* initCesium() has returned the viewer
     viewUUID      |-> NoUUID, \* undefined, or the identifier in use
     firstUUID     |-> NoUUID, \* the first identifier a result carried
     camera        |-> 0,
     persistTimer  |-> FALSE,  \* the debounce timer is armed
     persistDue    |-> <<>>,   \* when the armed persist timers are due
     cleared       |-> FALSE,  \* the last move cancelled a pending timer
     time          |-> 0,      \* in units of 100 ms
     lastMove      |-> 0,      \* the time of the last camera.moveEnd
     storage       |-> [u \in UUIDs |-> Null],
     persistedWith |-> NoUUID, \* the key the last setItem wrote
     tornDown      |-> FALSE,  \* app.onteardown has run
     connected     |-> FALSE,  \* app.connect() has resolved
     fallback      |-> "none", \* the 500 ms timer of initialize: then
                               \* "armed", then "fired"
     hasReceivedToolInput |-> FALSE,
     waiting       |-> FALSE,  \* a waitForTilesLoaded promise is pending
                               \* whose continuation is hideLoading()
     loadingHidden |-> FALSE]  \* #loading has display: none

NOMINATIM_RATE_LIMIT_MS == 1100
PERSIST_DEBOUNCE_MS == 500

\* The server module as loaded. Its time is counted in units of 100 ms and
\* starts, like Date.now(), more than the rate limit after
\* lastNominatimRequest = 0.
InitialServer ==
    [time                 |-> NOMINATIM_RATE_LIMIT_MS \div 100,
     lastNominatimRequest |-> 0,
     calls                |-> <<>>, \* the geocodeWithNominatim calls
     requests             |-> <<>>] \* the times of the fetches sent

\* The apps whose views the host displays.
Apps == {"weather", "globe"}

\* Both apps start with currentDisplayMode = "inline" and the expand icon
\* of their fullscreen button shown.
InitialDisplay ==
    [a \in Apps |->
        [connected          |-> FALSE,    \* app.connect() has resolved
         currentDisplayMode |-> "inline",
         compressIcon       |-> FALSE,    \* the button shows the compress
                                          \* icon and "Exit fullscreen"
         requests           |-> <<>>]]    \* the modes of the
                                          \* requestDisplayMode calls the
                                          \* host has not answered

\* No search has been made from the UI.
NoCalls ==
    [inFlight   |-> <<>>,       \* the locations of the callServerTool calls
                                \* not yet answered, in the order made
     last       |-> NoLocation, \* the location requested last
     overlapped |-> FALSE,      \* two calls have been in flight together
                                \* since the UI was last idle
     reordered  |-> FALSE]      \* and a later one was answered first

InitCommon ==
    /\ phase = "loading"
    /\ viewUUID = NoUUID
    /\ persistedState = defaultState
    /\ quotaExceeded = FALSE
    /\ now = 0
    /\ currentWeatherData = Null
    /\ isForecastVisible = FALSE
    /\ isLogExpanded = FALSE
    /\ dom = InitialDom
    /\ pendingSetups = <<>>
    /\ hostUp = TRUE
    /\ inFlight = 0
    /\ lastSentHeight = NoHeight
    /\ hostHeight = NoHeight
    /\ sizeReports = <<>>
    /\ console = <<>>
    /\ uncaught = FALSE
    /\ unhandled = 0
    /\ lastOp = Op("load page", NoLocation)
    /\ loaded = Null
    /\ searches = [calls |-> 0, repeats |-> 0]
    /\ clock = 0
    /\ streams = <<>>
    /\ comparison = NoComparison
    /\ server = InitialServer
    /\ display = InitialDisplay
    /\ calls = NoCalls

\* The storage of a browser context that has never run the app.
EmptyStorage == [k \in StorageKeys |-> Null]

Init ==
    /\ InitCommon
    /\ localStorage = EmptyStorage
    /\ globe = InitialGlobe

(***************************************************************************)
(* Rendering.                                                              *)
(***************************************************************************)
\* What a show-weather result may carry as weatherData.
WeatherData(l, lat, lon) ==
    [location |-> l, latitude |-> lat, longitude |-> lon]

\* The result the server sends in the runs of SpecView.
ViewResults == { WeatherData(<<"A", "b">>, 0, 1) }

\* renderWeather(data): weather-content is rebuilt with a new favorite
\* button and a new, collapsed forecast section; the handlers are attached
\* later, by a setTimeout(..., 0) callback.
renderWeather(d, state, data) ==
    [d EXCEPT !.rendered = TRUE,
              !.star = isFavorited(state, data.location),
              !.forecastContentVisible = FALSE,
              !.forecastHandlers = 0,
              !.favoriteHandlers = <<>>]

\* showError(message): weather-content is replaced by the error message.
showError(d) ==
    [d EXCEPT !.rendered = FALSE,
              !.star = FALSE,
              !.forecastContentVisible = FALSE,
              !.forecastHandlers = 0,
              !.favoriteHandlers = <<>>]

(***************************************************************************)
(* Environment.                                                            *)
(***************************************************************************)
\* Time passes.
Tick ==
    /\ now < MaxNow
    /\ now' = now + 1
    /\ lastOp' = Op("tick", NoLocation)
    /\ console' = <<>>
    /\ uncaught' = FALSE
    /\ sizeReports' = <<>>
    /\ unhandled' = 0
    /\ UNCHANGED <<phase, viewUUID, persistedState, localStorage,
                   quotaExceeded, currentWeatherData, isForecastVisible,
                   isLogExpanded, dom, pendingSetups, hostUp, inFlight,
                   lastSentHeight, hostHeight, otherVars>>

\* The storage quota becomes exhausted, or space is freed again.
QuotaChange ==
    /\ quotaExceeded' = ~quotaExceeded
    /\ lastOp' = Op("quota", NoLocation)
    /\ console' = <<>>
    /\ uncaught' = FALSE
    /\ sizeReports' = <<>>
    /\ unhandled' = 0
    /\ UNCHANGED <<phase, viewUUID, persistedState, localStorage, now,
                   currentWeatherData, isForecastVisible, isLogExpanded,
                   dom, pendingSetups, hostUp, inFlight, lastSentHeight,
                   hostHeight, otherVars>>

(***************************************************************************)
(* initialize()                                                            *)
(***************************************************************************)
\* appInstance.sendSizeChanged(...) returns a promise that nothing awaits
\* and that has no catch handler: the number of rejections left unhandled
\* by n calls.
UnhandledRejections(n) == IF hostUp THEN 0 ELSE n

\* The console as the browser shows it: logToHost writes the line, then
\* awaits app.sendLog and, when that is rejected, writes an error line of
\* its own. Lines of level "log" and "warn" are written with console.log
\* and console.warn and are not sent to the host.
RECURSIVE WithSendLogFailures(_, _)
WithSendLogFailures(lines, up) ==
    IF lines = <<>> THEN <<>>
    ELSE <<Head(lines)>>
         \o (IF ~up /\ Head(lines).level \in {"info", "warning", "error"}
             THEN <<Line("error", "Failed to send log to host")>>
             ELSE <<>>)
         \o WithSendLogFailures(Tail(lines), up)

consoleOutput == WithSendLogFailures(console, hostUp)

\* connect() resolved: the initial size is sent and the log panel set up.
Initialize ==
    /\ phase = "loading"
    /\ phase' = "ready"
    /\ lastSentHeight' = totalHeight(isForecastVisible, isLogExpanded)
    /\ sizeReports' = <<totalHeight(isForecastVisible, isLogExpanded)>>
    /\ unhandled' = UnhandledRejections(1)
    /\ hostHeight' = IF hostUp
                     THEN totalHeight(isForecastVisible, isLogExpanded)
                     ELSE hostHeight
    /\ dom' = [dom EXCEPT !.logCollapsed = TRUE, !.loggingHandlers = 1]
    /\ lastOp' = Op("initialize", NoLocation)
    /\ console' = <<Line("info", "Connected to host"),
                    Line("log", "Viewport height updated"),
                    Line("info", "Sent initial size")>>
    /\ uncaught' = FALSE
    /\ UNCHANGED <<storeVars, currentWeatherData, isForecastVisible,
                   isLogExpanded, pendingSetups, hostUp, inFlight,
                   otherVars>>

\* connect() rejected: the error is shown and nothing is set up.
InitializeFailed ==
    /\ phase = "loading"
    /\ phase' = "failed"
    /\ dom' = showError(dom)
    /\ lastOp' = Op("initialize", NoLocation)
    /\ console' = <<Line("error", "Failed to initialize")>>
    /\ uncaught' = FALSE
    /\ sizeReports' = <<>>
    /\ unhandled' = 0
    /\ UNCHANGED <<storeVars, currentWeatherData, isForecastVisible,
                   isLogExpanded, pendingSetups, hostUp, inFlight,
                   lastSentHeight, hostHeight, otherVars>>

(***************************************************************************)
(* app.ontoolresult                                                        *)
(***************************************************************************)
\* A test that takes the identifier of every result that carries one.
IsFirstViewUUIDOfAnyResult(uuid) == uuid /= NoUUID

\* result._meta?.viewUUID && !viewUUID
IsFirstViewUUID(uuid) == uuid /= NoUUID /\ viewUUID = NoUUID

\* A tool result arrives; uuid is NoUUID when _meta carries no viewUUID,
\* data is Null when it carries no weatherData.
OnToolResult(uuid, data) ==
    /\ phase = "ready"
    /\ data /= Null => Len(pendingSetups) < MaxPendingSetups
    /\ LET first   == IsFirstViewUUID(uuid)
           id      == IF first THEN uuid ELSE viewUUID
           load    == loadPersistedState(id, localStorage)
           state   == IF first THEN load.state ELSE persistedState
           history == addToSearchHistory(state, id, localStorage,
                                         quotaExceeded, data.location, now)
       IN /\ viewUUID' = id
          /\ IF first /\ load.threw
             THEN \* the handler ends with the exception of the load
                  /\ uncaught' = TRUE
                  /\ console' = <<>>
                  /\ UNCHANGED <<persistedState, localStorage,
                                 currentWeatherData, dom, pendingSetups>>
             ELSE IF data = Null
             THEN /\ uncaught' = FALSE
                  /\ persistedState' = state
                  /\ console' = <<Line("warning",
                                 "Tool result received but no weather data")>>
                  /\ UNCHANGED <<localStorage, currentWeatherData, dom,
                                 pendingSetups>>
             ELSE \* try { renderWeather; hideLoading; addToSearchHistory }
                  \* catch { showError }
                  /\ uncaught' = FALSE
                  /\ currentWeatherData' = data
                  /\ pendingSetups' = Append(pendingSetups, data)
                  /\ persistedState' = history.state
                  /\ localStorage' = history.storage
                  /\ dom' = IF history.threw
                            THEN showError(dom)
                            ELSE renderWeather(dom, state, data)
                  /\ console' = <<Line("info", "Weather rendered")>>
                                \o history.console
                                \o IF history.threw
                                   THEN <<Line("error",
                                               "Failed to render weather")>>
                                   ELSE <<>>
    /\ lastOp' = Op("ontoolresult",
                    IF data = Null THEN NoLocation ELSE data.location)
    /\ sizeReports' = <<>>
    /\ unhandled' = 0
    /\ UNCHANGED <<phase, quotaExceeded, now, isForecastVisible,
                   isLogExpanded, hostUp, inFlight, lastSentHeight,
                   hostHeight, otherVars>>

(***************************************************************************)
(* searchLocation(location)                                                *)
(***************************************************************************)
\* String.prototype.trim() leaves nothing: the query is empty or blank.
IsBlank(query) == \A i \in DOMAIN query : query[i] = " "

\* The search button, the Enter key or a quick-city chip: up to the await
\* of callServerTool.
SearchLocation(query) ==
    /\ phase = "ready"
    /\ IF IsBlank(query)
       THEN /\ dom' = showError(dom)
            /\ console' = <<Line("error", "Error displayed")>>
            /\ UNCHANGED inFlight
       ELSE /\ inFlight < MaxInFlight
            /\ inFlight' = inFlight + 1
            /\ console' = <<Line("info", "Searching for location")>>
            /\ UNCHANGED dom
    /\ lastOp' = Op("searchLocation", query)
    /\ uncaught' = FALSE
    /\ sizeReports' = <<>>
    /\ unhandled' = 0
    /\ UNCHANGED <<phase, storeVars, currentWeatherData, isForecastVisible,
                   isLogExpanded, pendingSetups, hostUp, lastSentHeight,
                   hostHeight, otherVars>>

\* callServerTool resolved with weatherData: the rest of searchLocation.
SearchResolved(data) ==
    /\ inFlight > 0
    /\ Len(pendingSetups) < MaxPendingSetups
    /\ inFlight' = inFlight - 1
    /\ LET history == addToSearchHistory(persistedState, viewUUID,
                                         localStorage, quotaExceeded,
                                         data.location, now)
       IN /\ currentWeatherData' = data
          /\ pendingSetups' = Append(pendingSetups, data)
          /\ persistedState' = history.state
          /\ localStorage' = history.storage
          /\ dom' = IF history.threw
                    THEN showError(dom)
                    ELSE renderWeather(dom, persistedState, data)
          /\ console' = <<Line("info", "Weather rendered")>>
                        \o history.console
                        \o IF history.threw
                           THEN <<Line("error", "Failed to fetch weather")>>
                           ELSE <<>>
    /\ lastOp' = Op("searchLocation result", data.location)
    /\ uncaught' = FALSE
    /\ sizeReports' = <<>>
    /\ unhandled' = 0
    /\ UNCHANGED <<phase, viewUUID, quotaExceeded, now, isForecastVisible,
                   isLogExpanded, hostUp, lastSentHeight, hostHeight,
                   otherVars>>

\* callServerTool rejected, or resolved without weatherData.
SearchFailed ==
    /\ inFlight > 0
    /\ inFlight' = inFlight - 1
    /\ dom' = showError(dom)
    /\ console' = <<Line("error", "Error displayed")>>
    /\ lastOp' = Op("searchLocation failed", NoLocation)
    /\ uncaught' = FALSE
    /\ sizeReports' = <<>>
    /\ unhandled' = 0
    /\ UNCHANGED <<phase, storeVars, currentWeatherData, isForecastVisible,
                   isLogExpanded, pendingSetups, hostUp, lastSentHeight,
                   hostHeight, otherVars>>

(***************************************************************************)
(* The handlers of the rendered controls.                                  *)
(***************************************************************************)
\* The setTimeout(..., 0) callback of renderWeather: setupForecastToggle()
\* and setupFavoriteButton(data) add a listener to the elements that are in
\* the document now, if there are any.
RunSetup ==
    /\ pendingSetups /= <<>>
    /\ pendingSetups' = Tail(pendingSetups)
    /\ dom' = IF dom.rendered
              THEN [dom EXCEPT
                      !.forecastHandlers = @ + 1,
                      !.favoriteHandlers = Append(@, Head(pendingSetups))]
              ELSE dom
    /\ lastOp' = Op("setup", Head(pendingSetups).location)
    /\ console' = <<>>
    /\ uncaught' = FALSE
    /\ sizeReports' = <<>>
    /\ unhandled' = 0
    /\ UNCHANGED <<phase, storeVars, currentWeatherData, isForecastVisible,
                   isLogExpanded, hostUp, inFlight, lastSentHeight,
                   hostHeight, otherVars>>

\* The value of a flag after n listeners have flipped it.
Flipped(flag, n) == IF n % 2 = 0 THEN flag ELSE ~flag

\* updateViewportHeight() in each of n listeners of the forecast toggle.
ForecastReports(n) ==
    [i \in 1..n |-> totalHeight(Flipped(isForecastVisible, i),
                                isLogExpanded)]

\* A click on forecast-toggle-btn runs every listener of the button.
ForecastToggleClick ==
    /\ phase = "ready"
    /\ dom.rendered
    /\ LET n == dom.forecastHandlers
           reports == ForecastReports(n)
       IN /\ isForecastVisible' = Flipped(isForecastVisible, n)
          /\ dom' = IF n = 0 THEN dom
                    ELSE [dom EXCEPT !.forecastContentVisible =
                                        Flipped(isForecastVisible, n)]
          /\ sizeReports' = reports
          /\ unhandled' = UnhandledRejections(n)
          /\ lastSentHeight' = IF n = 0 THEN lastSentHeight ELSE reports[n]
          /\ hostHeight' = IF n = 0 \/ ~hostUp THEN hostHeight
                           ELSE reports[n]
          /\ console' = [i \in 1..(2 * n) |->
                           IF i % 2 = 1
                           THEN Line("log", "Viewport height updated")
                           ELSE Line("info",
                                     IF Flipped(isForecastVisible, i \div 2)
                                     THEN "7-day forecast expanded"
                                     ELSE "7-day forecast collapsed")]
    /\ lastOp' = Op("forecast toggle", NoLocation)
    /\ uncaught' = FALSE
    /\ UNCHANGED <<phase, storeVars, currentWeatherData, isLogExpanded,
                   pendingSetups, hostUp, inFlight, otherVars>>

\* A click on logging-header.
LoggingToggleClick ==
    /\ phase = "ready"
    /\ dom.loggingHandlers = 1
    /\ isLogExpanded' = ~isLogExpanded
    /\ dom' = [dom EXCEPT !.logCollapsed = isLogExpanded]
    /\ sizeReports' = <<totalHeight(isForecastVisible, ~isLogExpanded)>>
    /\ unhandled' = UnhandledRejections(1)
    /\ lastSentHeight' = totalHeight(isForecastVisible, ~isLogExpanded)
    /\ hostHeight' = IF hostUp
                     THEN totalHeight(isForecastVisible, ~isLogExpanded)
                     ELSE hostHeight
    /\ console' = <<Line("log", "Viewport height updated"),
                    Line("log", IF ~isLogExpanded
                                THEN "Activity log expanded"
                                ELSE "Activity log collapsed")>>
    /\ lastOp' = Op("log toggle", NoLocation)
    /\ uncaught' = FALSE
    /\ UNCHANGED <<phase, storeVars, currentWeatherData, isForecastVisible,
                   pendingSetups, hostUp, inFlight, otherVars>>

\* The host stops or resumes receiving notifications.
HostChange ==
    /\ hostUp' = ~hostUp
    /\ lastOp' = Op("host", NoLocation)
    /\ console' = <<>>
    /\ uncaught' = FALSE
    /\ sizeReports' = <<>>
    /\ unhandled' = 0
    /\ UNCHANGED <<phase, storeVars, currentWeatherData, isForecastVisible,
                   isLogExpanded, dom, pendingSetups, inFlight,
                   lastSentHeight, hostHeight, otherVars>>

\* app.onteardown of the weather app: a line is logged and {} returned.
OnTeardown ==
    /\ phase = "ready"
    /\ phase' = "torn down"
    /\ lastOp' = Op("onteardown", NoLocation)
    /\ console' = <<Line("info", "App is being torn down")>>
    /\ uncaught' = FALSE
    /\ sizeReports' = <<>>
    /\ unhandled' = 0
    /\ UNCHANGED <<storeVars, viewVarsButReports, otherVars>>

\* app.onhostcontextchanged: the theme and the display mode are applied to
\* the classes of document.body.
OnHostContextChanged ==
    /\ lastOp' = Op("onhostcontextchanged", NoLocation)
    /\ console' = <<Line("info", "Host context changed")>>
    /\ uncaught' = FALSE
    /\ sizeReports' = <<>>
    /\ unhandled' = 0
    /\ UNCHANGED <<phase, storeVars, viewVarsButReports, otherVars>>

\* One click listener of favorite-btn, registered with the captured data,
\* run on the result r of the listeners before it.
FavoriteListener(r, data) ==
    LET res == IF isFavorited(r.state, data.location)
               THEN removeFromFavorites(r.state, viewUUID, r.storage,
                                        quotaExceeded, data.location)
               ELSE addToFavorites(r.state, viewUUID, r.storage,
                                   quotaExceeded, data.location,
                                   data.latitude, data.longitude, now)
    IN [state   |-> res.state,
        storage |-> res.storage,
        console |-> r.console \o res.console,
        threw   |-> r.threw \/ res.threw,
        \* the star is set after the call, so not when the call threw
        star    |-> IF res.threw THEN r.star
                    ELSE ~isFavorited(r.state, data.location)]

RECURSIVE FavoriteListeners(_, _)
FavoriteListeners(r, handlers) ==
    IF handlers = <<>> THEN r
    ELSE FavoriteListeners(FavoriteListener(r, Head(handlers)),
                           Tail(handlers))

\* A click on favorite-btn runs every listener of the button.
FavoriteClick ==
    /\ phase = "ready"
    /\ dom.rendered
    /\ LET r == FavoriteListeners(
                  [state |-> persistedState, storage |-> localStorage,
                   console |-> <<>>, threw |-> FALSE, star |-> dom.star],
                  dom.favoriteHandlers)
       IN /\ persistedState' = r.state
          /\ localStorage' = r.storage
          /\ console' = r.console
          /\ uncaught' = r.threw
          /\ dom' = [dom EXCEPT !.star = r.star]
    /\ lastOp' = Op("favorite click",
                    IF currentWeatherData = Null THEN NoLocation
                    ELSE currentWeatherData.location)
    /\ sizeReports' = <<>>
    /\ unhandled' = 0
    /\ UNCHANGED <<phase, viewUUID, quotaExceeded, now, currentWeatherData,
                   isForecastVisible, isLogExpanded, pendingSetups, hostUp,
                   inFlight, lastSentHeight, hostHeight, otherVars>>

(***************************************************************************)
(* The store driven through its functions: the favorites and the history   *)
(* of two places, with a clock and a storage quota that may run out.       *)
(***************************************************************************)
\* addToSearchHistory(location), called on its own.
AddToSearchHistoryStep(location) ==
    /\ LET r == addToSearchHistory(persistedState, viewUUID, localStorage,
                                   quotaExceeded, location, now)
       IN /\ persistedState' = r.state
          /\ localStorage' = r.storage
          /\ console' = r.console
          /\ uncaught' = r.threw
    /\ lastOp' = Op("addToSearchHistory", location)
    /\ sizeReports' = <<>>
    /\ unhandled' = 0
    /\ UNCHANGED <<phase, viewUUID, quotaExceeded, now, viewVarsButReports,
                   loaded, clock, streams,
                   comparison, globe,
                   server,
                   display, calls>>

AddToSearchHistoryCall(location) ==
    /\ AddToSearchHistoryStep(location)
    /\ UNCHANGED searches

\* addToFavorites(location, latitude, longitude), called on its own.
AddToFavoritesCall(location, latitude, longitude) ==
    /\ LET r == addToFavorites(persistedState, viewUUID, localStorage,
                               quotaExceeded, location, latitude, longitude,
                               now)
       IN /\ persistedState' = r.state
          /\ localStorage' = r.storage
          /\ console' = r.console
          /\ uncaught' = r.threw
    /\ lastOp' = Op("addToFavorites", location)
    /\ sizeReports' = <<>>
    /\ unhandled' = 0
    /\ UNCHANGED <<phase, viewUUID, quotaExceeded, now, viewVarsButReports,
                   otherVars>>

\* removeFromFavorites(location), called on its own.
RemoveFromFavoritesCall(location) ==
    /\ LET r == removeFromFavorites(persistedState, viewUUID, localStorage,
                                    quotaExceeded, location)
       IN /\ persistedState' = r.state
          /\ localStorage' = r.storage
          /\ console' = r.console
          /\ uncaught' = r.threw
    /\ lastOp' = Op("removeFromFavorites", location)
    /\ sizeReports' = <<>>
    /\ unhandled' = 0
    /\ UNCHANGED <<phase, viewUUID, quotaExceeded, now, viewVarsButReports,
                   otherVars>>

\* The tool results of SpecStore: with or without a view identifier, and
\* without weather data (nothing is rendered).
NextStore ==
    \/ Tick
    \/ QuotaChange
    \/ Initialize
    \/ \E uuid \in {"u1", NoUUID} : OnToolResult(uuid, Null)
    \/ \E l \in SearchedLocations : AddToSearchHistoryCall(l)
    \/ \E l \in Locations, c \in Coordinates :
          AddToFavoritesCall(l, c[1], c[2])
    \/ \E l \in Locations : RemoveFromFavoritesCall(l)

SpecStore == Init /\ [][NextStore]_vars

(***************************************************************************)
(* The search history with eleven places, one more than it holds. The      *)
(* places are searched in alphabetical order, spelled in upper case as the *)
(* server spells them; up to MaxRepeats searches name a place that is in   *)
(* the history already, spelled in lower case. The tool result that sets   *)
(* the view identifier, if there is one, comes before the first search.    *)
(***************************************************************************)
InHistory(location) ==
    \E i \in DOMAIN persistedState.searchHistory :
        SameIgnoringCase(persistedState.searchHistory[i].location, location)

HistoryInputs == HistoryPlaces \cup { toLowerCase(p) : p \in HistoryPlaces }

HistorySearch(location) ==
    /\ phase = "ready"
    /\ searches.calls < MaxSearches
    /\ LET fresh == searches.calls - searches.repeats
       IN \/ /\ fresh < Len(UpperLetters)
             /\ location = <<UpperLetters[fresh + 1]>>
             /\ searches' = [searches EXCEPT !.calls = @ + 1]
          \/ /\ searches.repeats < MaxRepeats
             /\ InHistory(location)
             /\ location = toLowerCase(location)
             /\ searches' = [calls   |-> searches.calls + 1,
                             repeats |-> searches.repeats + 1]
    /\ AddToSearchHistoryStep(location)

FirstToolResult(uuid) ==
    /\ searches.calls = 0
    /\ OnToolResult(uuid, Null)

NextHistory ==
    \/ Tick
    \/ Initialize
    \/ \E uuid \in {"u1", NoUUID} : FirstToolResult(uuid)
    \/ \E l \in HistoryInputs : HistorySearch(l)

SpecHistory == Init /\ [][NextHistory]_vars

(***************************************************************************)
(* loadPersistedState() as a function of what the storage holds: the       *)
(* browser context may hold any string under the key of the view.          *)
(***************************************************************************)
StoredFavorite ==
    [location |-> <<"A", "b">>, latitude |-> 0, longitude |-> 1,
     addedAt |-> 0]
StoredEntry == [location |-> <<"B", "1">>, timestamp |-> 0]

\* What the array fields of a stored object may hold.
StoredArrayFields(item) ==
    { JAbsent, JNull, JNumber(1), JString(<<"a">>), JArray(<<>>),
      JArray(<<item>>) }
StoredLastLocations == { JAbsent, JNull, JNumber(7), JString(<<"A", "b">>) }

StoredObjects ==
    { JObject(f, h, l) : f \in StoredArrayFields(StoredFavorite),
                         h \in StoredArrayFields(StoredEntry),
                         l \in StoredLastLocations }

StoredValues ==
    { Null, EmptyText, InvalidText }
    \cup { JsonText(d) : d \in { JNull, JNumber(42), JString(<<"a">>),
                                 JArray(<<>>) } \cup StoredObjects }

InitLoad ==
    /\ InitCommon
    /\ globe = InitialGlobe
    /\ \E v \in StoredValues :
          localStorage = [k \in StorageKeys |->
                            IF k = StorageKey("u1") THEN v ELSE Null]

\* loadPersistedState(), called on its own.
LoadCall ==
    /\ loaded' = loadPersistedState(viewUUID, localStorage)
    /\ lastOp' = Op("loadPersistedState", NoLocation)
    /\ console' = <<>>
    /\ uncaught' = loadPersistedState(viewUUID, localStorage).threw
    /\ sizeReports' = <<>>
    /\ unhandled' = 0
    /\ UNCHANGED <<phase, storeVars, viewVarsButReports, searches, clock,
                   streams,
                   comparison, globe,
                   server,
                   display, calls>>

NextLoad ==
    \/ LoadCall
    \/ Initialize
    \/ \E uuid \in UUIDs \cup {NoUUID} : OnToolResult(uuid, Null)

SpecLoad == InitLoad /\ [][NextLoad]_vars

(***************************************************************************)
(* The view: one place, the forecast and log toggles, the favorite button  *)
(* and the host that may miss a size report.                               *)
(***************************************************************************)
NextView ==
    \/ HostChange
    \/ Initialize
    \/ InitializeFailed
    \/ \E uuid \in {"u1", NoUUID}, data \in ViewResults \cup {Null} :
          OnToolResult(uuid, data)
    \/ \E query \in {<<"a", "b">>, <<" ">>} : SearchLocation(query)
    \/ \E data \in ViewResults : SearchResolved(data)
    \/ SearchFailed
    \/ RunSetup
    \/ ForecastToggleClick
    \/ LoggingToggleClick
    \/ FavoriteClick

SpecView == Init /\ [][NextView]_vars

(***************************************************************************)
(* The progressive insight stream.                                         *)
(***************************************************************************)
\* An update of a stream response. The clock of SpecStream counts units of
\* 500 ms; every delay of the phase lists below is a multiple of it.
Update(phaseNumber, delayMs) ==
    [phase |-> phaseNumber, delay |-> delayMs \div 500]

\* _meta of a uzir-weather-stream result: the list the server documents
\* (five phases, one per second), a list whose delays are not in list
\* order, and a list that comes with another totalPhases than its length.
StreamResponses ==
    { [updates |-> <<Update(1, 1000), Update(2, 2000), Update(3, 3000),
                     Update(4, 4000), Update(5, 5000)>>, totalPhases |-> 5],
      [updates |-> <<Update(1, 2000), Update(2, 1000)>>, totalPhases |-> 2],
      [updates |-> <<Update(1, 1000), Update(2, 2000)>>, totalPhases |-> 3] }

\* No alert() has been shown.
NoAlert == ""

\* What the catch block of getWeatherStream may be entered with: the
\* rejection of callServerTool, or the Error thrown for a result whose
\* _meta.updates is missing or is not an array.
StreamErrors == {"Tool call rejected", "No stream updates in response"}

\* A stream from the click on stream-btn on. The modal fields describe the
\* modal this stream created; target is the stream whose modal holds the
\* elements stream-phases, progress-fill and progress-text that
\* getElementById returned to this stream.
RequestedStream ==
    [status      |-> "requesting", \* then "streaming" or "failed"
     calls       |-> 1,       \* callServerTool invocations of this start
     alert       |-> NoAlert, \* the message of the alert() shown
     updates     |-> <<>>,
     totalPhases |-> 0,
     armedAt     |-> 0,
     order       |-> 0,       \* position of the modal in document.body
     attached    |-> FALSE,   \* the modal is in the document
     target      |-> 0,
     pending     |-> {},      \* indexes (from 0) of the timers not yet fired
     delivered   |-> <<>>,    \* indexes in the order their handlers ran
     late        |-> {},      \* indexes whose handler ran after the modal
                              \* of this stream had been removed
     container   |-> <<>>,    \* stream-phases: <<stream, index>> appended
     progress    |-> <<0, 1>>, \* progress-fill: width as a fraction
     text        |-> "Initializing stream..."]

\* document.getElementById: the first element with the id in the document,
\* that of the attached modal that was appended first; the new modal (order
\* n) is attached too.
FirstModal(n, self) ==
    LET attached == { k \in DOMAIN streams : streams[k].attached }
    IN IF attached = {} THEN self
       ELSE CHOOSE k \in attached :
              \A j \in attached : streams[k].order <= streams[j].order

\* The click on stream-btn: getWeatherStream() up to the await, while
\* fewer than limit streams have been started.
StreamButtonClick(limit) ==
    /\ phase = "ready"
    /\ IF currentWeatherData = Null
       THEN /\ console' = <<Line("warning",
                            "No weather data available for streaming")>>
            /\ UNCHANGED streams
       ELSE /\ Len(streams) < limit
            /\ streams' = Append(streams, RequestedStream)
            /\ console' = <<Line("info",
                                 "Starting progressive weather stream")>>
    /\ lastOp' = Op("getWeatherStream", NoLocation)
    /\ uncaught' = FALSE
    /\ sizeReports' = <<>>
    /\ unhandled' = 0
    /\ UNCHANGED <<phase, storeVars, viewVarsButReports, loaded, searches,
                   clock,
                   comparison, globe,
                   server,
                   display, calls>>

GetWeatherStream == StreamButtonClick(MaxStreams)

\* displayProgressiveInsights(streamId, updates, totalPhases) for stream k.
displayProgressiveInsights(k, updates, totalPhases) ==
    LET n == Cardinality({ j \in DOMAIN streams : streams[j].order > 0 }) + 1
    IN [streams EXCEPT
          ![k] = [@ EXCEPT !.status = "streaming",
                           !.updates = updates,
                           !.totalPhases = totalPhases,
                           !.armedAt = clock,
                           !.order = n,
                           !.attached = TRUE,
                           !.target = FirstModal(n, k),
                           !.pending = { i - 1 : i \in DOMAIN updates }]]

\* The tool call of stream k resolved with a list of updates.
StreamResolved(k, response) ==
    /\ k \in DOMAIN streams
    /\ streams[k].status = "requesting"
    /\ streams' = displayProgressiveInsights(k, response.updates,
                                             response.totalPhases)
    /\ console' = <<Line("info", "Stream modal displayed")>>
    /\ lastOp' = Op("displayProgressiveInsights", NoLocation)
    /\ uncaught' = FALSE
    /\ sizeReports' = <<>>
    /\ unhandled' = 0
    /\ UNCHANGED <<phase, storeVars, viewVarsButReports, loaded, searches,
                   clock,
                   comparison, globe,
                   server,
                   display, calls>>

\* getWeatherStream() whose catch block calls the tool again.
StreamFailedRetrying(k) ==
    /\ k \in DOMAIN streams
    /\ streams[k].status = "requesting"
    /\ streams[k].calls < 2
    /\ streams' = [streams EXCEPT ![k].calls = @ + 1]
    /\ console' = <<Line("error", "Failed to start weather stream")>>
    /\ lastOp' = Op("getWeatherStream failed", NoLocation)
    /\ uncaught' = FALSE
    /\ sizeReports' = <<>>
    /\ unhandled' = 0
    /\ UNCHANGED <<phase, storeVars, viewVarsButReports, loaded, searches,
                   clock,
                   comparison, globe,
                   server,
                   display, calls>>

\* The tool call of stream k was rejected or carried no array of updates:
\* the catch block logs the error and shows it with alert().
StreamFailed(k) ==
    /\ k \in DOMAIN streams
    /\ streams[k].status = "requesting"
    /\ \E message \in StreamErrors :
          streams' = [streams EXCEPT ![k].status = "failed",
                                     ![k].alert = message]
    /\ console' = <<Line("error", "Failed to start weather stream")>>
    /\ lastOp' = Op("getWeatherStream failed", NoLocation)
    /\ uncaught' = FALSE
    /\ sizeReports' = <<>>
    /\ unhandled' = 0
    /\ UNCHANGED <<phase, storeVars, viewVarsButReports, loaded, searches,
                   clock,
                   comparison, globe,
                   server,
                   display, calls>>

\* The close button of the modal of stream k, or a click on its backdrop:
\* modal.remove().
DismissModal(k) ==
    /\ k \in DOMAIN streams
    /\ streams[k].attached
    /\ streams' = [streams EXCEPT ![k].attached = FALSE]
    /\ console' = <<>>
    /\ lastOp' = Op("dismiss", NoLocation)
    /\ uncaught' = FALSE
    /\ sizeReports' = <<>>
    /\ unhandled' = 0
    /\ UNCHANGED <<phase, storeVars, viewVarsButReports, loaded, searches,
                   clock,
                   comparison, globe,
                   server,
                   display, calls>>

\* When the timer of update i (from 0) of stream k is due.
DueAt(k, i) == streams[k].armedAt + streams[k].updates[i + 1].delay

\* The indexes (from 0) of the updates of the lists above.
PhaseIndexes ==
    UNION { { i - 1 : i \in DOMAIN r.updates } : r \in StreamResponses }

PendingTimers ==
    { t \in (DOMAIN streams) \X PhaseIndexes :
        t[2] \in streams[t[1]].pending }

\* Timers run in the order of their due times and, among equal due times,
\* in the order they were armed.
Before(t, u) ==
    \/ DueAt(t[1], t[2]) < DueAt(u[1], u[2])
    \/ /\ DueAt(t[1], t[2]) = DueAt(u[1], u[2])
       /\ \/ streams[t[1]].order < streams[u[1]].order
          \/ t[1] = u[1] /\ t[2] < u[2]

\* 500 ms pass; a timer that is due runs before more time passes. The clock
\* is only followed while a timer is pending.
StreamTick ==
    /\ clock < MaxClock
    /\ PendingTimers /= {}
    /\ \A t \in PendingTimers : DueAt(t[1], t[2]) > clock
    /\ clock' = clock + 1
    /\ console' = <<>>
    /\ lastOp' = Op("stream tick", NoLocation)
    /\ uncaught' = FALSE
    /\ sizeReports' = <<>>
    /\ unhandled' = 0
    /\ UNCHANGED <<phase, storeVars, viewVarsButReports, loaded, searches,
                   streams,
                   comparison, globe,
                   server,
                   display, calls>>

\* The setTimeout callback of update index (from 0) of stream k.
PhaseHandler(k, index) ==
    LET self == streams[k]
        m == self.target
        complete == index = self.totalPhases - 1
    IN [j \in DOMAIN streams |->
          LET a == IF j = k
                   THEN [streams[j] EXCEPT
                           !.pending = @ \ {index},
                           !.delivered = Append(@, index),
                           !.late = IF self.attached THEN @
                                    ELSE @ \cup {index}]
                   ELSE streams[j]
          IN IF j = m
             THEN [a EXCEPT
                     !.container = Append(@, <<k, index>>),
                     !.progress = <<index + 1, self.totalPhases>>,
                     !.text = IF complete THEN "Analysis complete"
                              ELSE "Phase"]
             ELSE a]

PhaseTimerFires(k, index) ==
    /\ <<k, index>> \in PendingTimers
    /\ DueAt(k, index) <= clock
    /\ \A u \in PendingTimers \ {<<k, index>>} : Before(<<k, index>>, u)
    /\ streams' = PhaseHandler(k, index)
    /\ console' = <<Line("info", "Stream phase received")>>
    /\ lastOp' = Op("stream phase", NoLocation)
    /\ uncaught' = FALSE
    /\ sizeReports' = <<>>
    /\ unhandled' = 0
    /\ UNCHANGED <<phase, storeVars, viewVarsButReports, loaded, searches,
                   clock,
                   comparison, globe,
                   server,
                   display, calls>>

\* The tool result that opens the view: the weather to analyse.
FirstWeatherResult(data) ==
    /\ currentWeatherData = Null
    /\ OnToolResult("u1", data)

NextStream ==
    \/ Initialize
    \/ OnTeardown
    \/ \E data \in ViewResults : FirstWeatherResult(data)
    \/ RunSetup
    \/ GetWeatherStream
    \/ \E k \in 1..MaxStreams, response \in StreamResponses :
          StreamResolved(k, response)
    \/ \E k \in 1..MaxStreams : StreamFailed(k)
    \/ \E k \in 1..MaxStreams : DismissModal(k)
    \/ StreamTick
    \/ \E k \in 1..MaxStreams, index \in PhaseIndexes : PhaseTimerFires(k, index)

SpecStream == Init /\ [][NextStream]_vars

\* Streams started one after the other from the same view: stream-btn is
\* not disabled while a stream is requested or shown.
MaxOverlapping == 2

\* The responses of the streams that overlap: two phases, one per second.
OverlappingResponses ==
    { r \in StreamResponses : Len(r.updates) = r.totalPhases
                              /\ r.totalPhases = 2 }

NextOverlap ==
    \/ Initialize
    \/ \E data \in ViewResults : FirstWeatherResult(data)
    \/ RunSetup
    \/ StreamButtonClick(MaxOverlapping)
    \/ \E k \in 1..MaxOverlapping, response \in OverlappingResponses :
          StreamResolved(k, response)
    \/ \E k \in 1..MaxOverlapping : DismissModal(k)
    \/ StreamTick
    \/ \E k \in 1..MaxOverlapping, index \in PhaseIndexes :
          PhaseTimerFires(k, index)

SpecOverlap == Init /\ [][NextOverlap]_vars

(***************************************************************************)
(* The comparison set: the locations shown side by side, with the          *)
(* transitions the specification gives for them.                           *)
(***************************************************************************)
\* The most locations a comparison holds.
MAX_COMPARISON == 4

\* The longest list startComparison is tried with.
MaxListLen == 5

ComparePlaces == { <<"A">>, <<"B">>, <<"C">>, <<"D">> }

\* The lists startComparison is tried with: the places in alphabetical
\* order, over and over, and the same backwards, cut at each length.
CompareLists ==
    { [i \in 1..n |-> <<UpperLetters[((i - 1) % 4) + 1]>>] :
         n \in 0..MaxListLen }
    \cup { [i \in 1..n |-> <<UpperLetters[4 - ((i - 1) % 4)]>>] :
              n \in 0..MaxListLen }

\* The comparison grid: one card per entry of the set, in its order, each
\* with the favorite star of its location.
renderComparisonView(set, state) ==
    [i \in DOMAIN set |->
        [location |-> set[i], star |-> isFavorited(state, set[i])]]

\* startComparison(locations) that accepts a list of any length.
startComparisonUnchecked(c, locations, state) ==
    [comparison |-> [c EXCEPT
                       !.mode = "comparison",
                       !.set = locations,
                       !.cards = renderComparisonView(locations, state),
                       !.displayMode = "fullscreen"],
     console |-> <<Line("info", "Comparison started")>>]

\* startComparison(locations): a list of 2 to MAX_COMPARISON locations
\* becomes the set, in the given order, and the fullscreen display mode is
\* requested; any other list is refused with a warning.
startComparison(c, locations, state) ==
    IF Len(locations) < 2 \/ Len(locations) > MAX_COMPARISON
    THEN [comparison |-> c,
          console |-> <<Line("warning", "Comparison needs 2 to 4 locations")>>]
    ELSE [comparison |-> [c EXCEPT
                            !.mode = "comparison",
                            !.set = locations,
                            !.cards = renderComparisonView(locations, state),
                            !.displayMode = "fullscreen"],
          console |-> <<Line("info", "Comparison started")>>]

\* The set without its first entry equal to location.
RemoveFirst(set, location) ==
    IF \E i \in DOMAIN set : set[i] = location
    THEN LET first == CHOOSE i \in DOMAIN set :
                         /\ set[i] = location
                         /\ \A j \in 1..(i - 1) : set[j] /= location
         IN SubSeq(set, 1, first - 1) \o SubSeq(set, first + 1, Len(set))
    ELSE set

\* removeLocation(location) that keeps the grid whatever is left.
removeLocationNoCollapse(c, location, state) ==
    LET rest == RemoveFirst(c.set, location)
    IN IF c.mode /= "comparison" \/ rest = c.set
       THEN c
       ELSE [c EXCEPT !.set = rest,
                      !.cards = renderComparisonView(rest, state)]

\* removeLocation(location): the first matching entry is removed; when one
\* entry is left the comparison ends and the single view shows that entry.
removeLocation(c, location, state) ==
    LET rest == RemoveFirst(c.set, location)
    IN IF c.mode /= "comparison" \/ rest = c.set
       THEN c
       ELSE IF Len(rest) <= 1
       THEN [c EXCEPT !.mode = "single",
                      !.set = <<>>,
                      !.cards = <<>>,
                      !.shown = IF rest = <<>> THEN @ ELSE rest[1]]
       ELSE [c EXCEPT !.set = rest,
                      !.cards = renderComparisonView(rest, state)]

\* exitComparison(): the set is cleared and the single view returns.
exitComparison(c) ==
    [c EXCEPT !.mode = "single", !.set = <<>>, !.cards = <<>>]

\* A compare-weather result arrives with the list of locations.
StartComparison(locations) ==
    /\ phase = "ready"
    /\ LET r == startComparison(comparison, locations, persistedState)
       IN /\ comparison' = r.comparison
          /\ console' = r.console
    /\ lastOp' = Op("startComparison", locations)
    /\ uncaught' = FALSE
    /\ sizeReports' = <<>>
    /\ unhandled' = 0
    /\ UNCHANGED <<phase, storeVars, viewVarsButReports, loaded, searches,
                   clock, streams, globe,
                   server,
                   display, calls>>

\* The remove button of a card.
RemoveLocation(location) ==
    /\ phase = "ready"
    /\ comparison.mode = "comparison"
    /\ comparison' = removeLocation(comparison, location, persistedState)
    /\ console' = <<>>
    /\ lastOp' = Op("removeLocation", location)
    /\ uncaught' = FALSE
    /\ sizeReports' = <<>>
    /\ unhandled' = 0
    /\ UNCHANGED <<phase, storeVars, viewVarsButReports, loaded, searches,
                   clock, streams, globe,
                   server,
                   display, calls>>

\* The exit button of the comparison view.
ExitComparison ==
    /\ phase = "ready"
    /\ comparison.mode = "comparison"
    /\ comparison' = exitComparison(comparison)
    /\ console' = <<Line("info", "Comparison mode exited")>>
    /\ lastOp' = Op("exitComparison", NoLocation)
    /\ uncaught' = FALSE
    /\ sizeReports' = <<>>
    /\ unhandled' = 0
    /\ UNCHANGED <<phase, storeVars, viewVarsButReports, loaded, searches,
                   clock, streams, globe,
                   server,
                   display, calls>>

\* The favorite button of card i: the favorites are those of the single
\* view, keyed by the name of the location.
ComparisonFavoriteClick(i) ==
    /\ phase = "ready"
    /\ i \in DOMAIN comparison.cards
    /\ LET l == comparison.cards[i].location
           r == IF isFavorited(persistedState, l)
                THEN removeFromFavorites(persistedState, viewUUID,
                                         localStorage, quotaExceeded, l)
                ELSE addToFavorites(persistedState, viewUUID, localStorage,
                                    quotaExceeded, l, 0, 0, now)
       IN /\ persistedState' = r.state
          /\ localStorage' = r.storage
          /\ console' = r.console
          /\ uncaught' = r.threw
          /\ comparison' = [comparison EXCEPT
                              !.cards[i].star = isFavorited(r.state, l)]
          /\ lastOp' = Op("comparison favorite", l)
    /\ sizeReports' = <<>>
    /\ unhandled' = 0
    /\ UNCHANGED <<phase, viewUUID, quotaExceeded, now, viewVarsButReports,
                   loaded, searches, clock, streams, globe,
                   server,
                   display, calls>>

NextCompare ==
    \/ Initialize
    \/ \E locations \in CompareLists : StartComparison(locations)
    \/ \E l \in ComparePlaces : RemoveLocation(l)
    \/ ExitComparison
    \/ \E i \in 1..MAX_COMPARISON : ComparisonFavoriteClick(i)

SpecCompare == Init /\ [][NextCompare]_vars

(***************************************************************************)
(* A session of the view in a browser that has run the app before: tool    *)
(* results with either identifier or none, searches, and the favorite      *)
(* button, with a storage quota that may run out.                          *)
(***************************************************************************)
\* What an earlier session left under a key.
PriorState ==
    [favorites     |-> <<[location |-> <<"B", "1">>, latitude |-> 1,
                          longitude |-> 0, addedAt |-> 0]>>,
     searchHistory |-> <<>>,
     lastLocation  |-> Undefined]

InitSession ==
    /\ InitCommon
    /\ globe = InitialGlobe
    /\ localStorage \in [StorageKeys -> {Null, JSONstringify(PriorState)}]

NextSession ==
    \/ QuotaChange
    \/ HostChange
    \/ OnHostContextChanged
    \/ Initialize
    \/ \E uuid \in UUIDs \cup {NoUUID}, data \in ViewResults \cup {Null} :
          OnToolResult(uuid, data)
    \/ \E query \in {<<"a", "b">>} : SearchLocation(query)
    \/ \E data \in ViewResults : SearchResolved(data)
    \/ SearchFailed
    \/ RunSetup
    \/ FavoriteClick

SpecSession == InitSession /\ [][NextSession]_vars

(***************************************************************************)
(* The globe app: the view identifier and the camera state persisted      *)
(* under it.                                                               *)
(***************************************************************************)
MaxGlobeTime == 8

\* The steps of the globe app leave the weather app as it is.
GlobeStep(name) ==
    /\ lastOp' = Op(name, NoLocation)
    /\ console' = <<>>
    /\ uncaught' = FALSE
    /\ sizeReports' = <<>>
    /\ unhandled' = 0
    /\ UNCHANGED <<phase, storeVars, viewVarsButReports, loaded, searches,
                   clock, streams, comparison,
                   server,
                   display, calls>>

\* JSON.stringify of the camera state.
GlobeStored(camera) == [text |-> "json", doc |-> JNumber(camera)]

\* loadPersistedViewState(): <<>> for null, or the state in a sequence.
loadPersistedViewState(g) ==
    IF g.viewUUID = NoUUID THEN <<>>
    ELSE IF g.storage[g.viewUUID] = Null THEN <<>>
    ELSE IF g.storage[g.viewUUID].doc.t /= "number" THEN <<>>
    ELSE <<g.storage[g.viewUUID].doc.num>>

\* restorePersistedView(viewer)
restorePersistedView(g) ==
    IF loadPersistedViewState(g) = <<>> THEN g
    ELSE [g EXCEPT !.camera = loadPersistedViewState(g)[1]]

\* initialize() of the globe app up to the viewer.
GlobeInitialize ==
    /\ ~globe.viewer
    /\ ~globe.tornDown
    /\ globe' = [globe EXCEPT !.viewer = TRUE]
    /\ GlobeStep("globe initialize")

\* app.ontoolresult of the globe app; uuid is NoUUID when the result
\* carries no viewUUID, and viewUUID is then undefined:
\* viewUUID = result._meta?.viewUUID ? String(...) : undefined
GlobeOnToolResult(uuid) ==
    /\ LET g == [globe EXCEPT
                   !.viewUUID = uuid,
                   !.firstUUID = IF @ = NoUUID THEN uuid ELSE @]
       IN globe' = IF g.viewer /\ g.viewUUID /= NoUUID
                   THEN [restorePersistedView(g) EXCEPT
                           !.waiting = @ \/ loadPersistedViewState(g) /= <<>>]
                   ELSE g
    /\ GlobeStep("globe ontoolresult")

schedulePersistViewStateNoClear(g) ==
    [g EXCEPT !.persistTimer = TRUE,
              !.cleared = FALSE,
              !.persistDue = Append(@, g.time + PERSIST_DEBOUNCE_MS \div 100)]

\* schedulePersistViewState(cesiumViewer): the pending timer is cleared
\* and a new one armed.
schedulePersistViewState(g) ==
    [g EXCEPT !.persistTimer = TRUE,
              !.cleared = (g.persistDue /= <<>>),
              !.persistDue = <<g.time + PERSIST_DEBOUNCE_MS \div 100>>]

\* The armed persist timers that are due.
DuePersistTimers ==
    { i \in DOMAIN globe.persistDue : globe.persistDue[i] <= globe.time }

\* 100 ms pass in the globe app; a timer that is due runs first.
GlobeTick ==
    /\ globe.time < MaxGlobeTime
    /\ DuePersistTimers = {}
    /\ globe' = [globe EXCEPT !.time = @ + 1]
    /\ GlobeStep("globe tick")

\* camera.moveEnd: the user has moved the camera; the debounce timer of
\* schedulePersistViewState is armed anew.
GlobeMoveEnd(camera) ==
    /\ globe.viewer
    /\ camera /= globe.camera
    /\ globe' = schedulePersistViewState(
                  [globe EXCEPT !.camera = camera, !.lastMove = globe.time])
    /\ GlobeStep("globe moveEnd")

\* persistViewState(viewer), 500 ms after the last move. getCameraState
\* of a destroyed viewer throws, is caught and gives null: nothing is
\* written.
GlobePersistViewState ==
    /\ globe.persistTimer
    /\ DuePersistTimers /= {}
    /\ globe' = IF globe.viewUUID = NoUUID \/ ~globe.viewer
                THEN [globe EXCEPT !.persistTimer = Len(globe.persistDue) > 1,
                                   !.persistDue = Tail(@),
                                   !.persistedWith = NoUUID]
                ELSE [globe EXCEPT
                        !.persistTimer = Len(globe.persistDue) > 1,
                        !.persistDue = Tail(@),
                        !.persistedWith = globe.viewUUID,
                        !.storage[globe.viewUUID] = GlobeStored(globe.camera)]
    /\ GlobeStep("globe persistViewState")

\* app.onteardown of the globe app: the viewer is destroyed.
GlobeOnTeardown ==
    /\ ~globe.tornDown
    /\ globe' = [globe EXCEPT !.viewer = FALSE, !.tornDown = TRUE]
    /\ GlobeStep("globe onteardown")

NextGlobe ==
    \/ GlobeTick
    \/ GlobeInitialize
    \/ GlobeOnTeardown
    \/ \E uuid \in UUIDs \cup {NoUUID} : GlobeOnToolResult(uuid)
    \/ \E camera \in GlobeCameras : GlobeMoveEnd(camera)
    \/ GlobePersistViewState

SpecGlobe == Init /\ [][NextGlobe]_vars

(***************************************************************************)
(* The loading indicator of the globe app: hidden by the handler of a tool *)
(* input with a bounding box, by the handler of a tool result that         *)
(* restored a view, or by the fallback timer of initialize.                *)
(***************************************************************************)
\* The camera position a bounding box of a tool input is shown from.
BoundingBoxCamera == 1

\* initialize() from app.connect() on: the listeners are registered and
\* the fallback timer is armed.
GlobeConnect ==
    /\ globe.viewer
    /\ ~globe.connected
    /\ globe' = [globe EXCEPT !.connected = TRUE, !.fallback = "armed"]
    /\ GlobeStep("globe connect")

\* app.ontoolinput; bbox tells whether the arguments carry a bounding box.
\* Without one, or without a viewer, the handler does nothing.
GlobeOnToolInput(bbox) ==
    /\ globe.connected
    /\ globe' = IF bbox /\ globe.viewer
                THEN [globe EXCEPT !.hasReceivedToolInput = TRUE,
                                   !.camera = BoundingBoxCamera,
                                   !.waiting = TRUE]
                ELSE globe
    /\ GlobeStep("globe ontoolinput")

\* The fallback timer of initialize, 500 ms after connect. With the viewer
\* set to null by onteardown, waitForTilesLoaded(viewer!) rejects with a
\* TypeError and the callback ends before hideLoading().
GlobeFallbackTimer ==
    /\ globe.fallback = "armed"
    /\ LET g == [globe EXCEPT !.fallback = "fired"]
           runs == ~globe.loadingHidden /\ ~globe.hasReceivedToolInput
       IN globe' = IF runs /\ globe.viewer
                   THEN [restorePersistedView(g) EXCEPT !.waiting = TRUE]
                   ELSE g
    /\ lastOp' = Op("globe fallback timer", NoLocation)
    /\ console' = <<>>
    /\ uncaught' = FALSE
    /\ sizeReports' = <<>>
    /\ unhandled' = IF ~globe.loadingHidden /\ ~globe.hasReceivedToolInput
                       /\ ~globe.viewer
                    THEN 1 ELSE 0
    /\ UNCHANGED <<phase, storeVars, viewVarsButReports, loaded, searches,
                   clock, streams, comparison, server, display, calls>>

\* waitForTilesLoaded resolves, by the tileLoadProgressEvent (or at once,
\* the tiles being loaded already) or by its 10 s timeout; hideLoading()
\* follows.
waitForTilesLoadedResolves(g) ==
    [g EXCEPT !.waiting = FALSE, !.loadingHidden = TRUE]

\* The tiles of the view are loaded; a destroyed viewer raises no event.
GlobeTilesLoaded ==
    /\ globe.waiting
    /\ globe.viewer
    /\ globe' = waitForTilesLoadedResolves(globe)
    /\ GlobeStep("globe tiles loaded")

\* The 10 s timeout of a pending waitForTilesLoaded.
GlobeTileTimeout ==
    /\ globe.waiting
    /\ globe' = waitForTilesLoadedResolves(globe)
    /\ GlobeStep("globe tile timeout")

\* The views a previous session may have stored.
InitLoading ==
    /\ InitCommon
    /\ localStorage = EmptyStorage
    /\ \E stored \in [UUIDs -> {Null, GlobeStored(2)}] :
          globe = [InitialGlobe EXCEPT !.storage = stored]

NextLoading ==
    \/ GlobeInitialize
    \/ GlobeConnect
    \/ GlobeOnTeardown
    \/ \E bbox \in BOOLEAN : GlobeOnToolInput(bbox)
    \/ \E uuid \in UUIDs \cup {NoUUID} : GlobeOnToolResult(uuid)
    \/ GlobeFallbackTimer
    \/ GlobeTilesLoaded
    \/ GlobeTileTimeout

\* The event loop runs a timer that is due: the fallback timer and the
\* timeout of waitForTilesLoaded fire.
SpecLoading ==
    /\ InitLoading
    /\ [][NextLoading]_vars
    /\ WF_vars(GlobeFallbackTimer)
    /\ WF_vars(GlobeTileTimeout)

(***************************************************************************)
(* The MCP server: geocodeWithNominatim, called by the geocode and the     *)
(* show-weather tools of every per-request server instance, all of which   *)
(* share lastNominatimRequest.                                             *)
(***************************************************************************)
MaxServerTime == 30
MaxGeocodeCalls == 3

GeocodingTools == {"geocode", "show-weather"}

\* The steps of the server leave the apps as they are.
ServerStep(name) ==
    /\ lastOp' = Op(name, NoLocation)
    /\ console' = <<>>
    /\ uncaught' = FALSE
    /\ sizeReports' = <<>>
    /\ unhandled' = 0
    /\ UNCHANGED <<phase, storeVars, viewVarsButReports, loaded, searches,
                   clock, streams, comparison, globe,
                   display, calls>>

\* lastNominatimRequest = Date.now(), followed by the fetch.
SendRequest(sv) ==
    [sv EXCEPT !.lastNominatimRequest = sv.time,
               !.requests = Append(@, sv.time)]

\* The waiting calls whose timer is due.
DueCalls ==
    { i \in DOMAIN server.calls :
        server.calls[i].waiting /\ server.calls[i].wakeAt <= server.time }

\* 100 ms pass on the server; a timer that is due runs first.
ServerTick ==
    /\ server.time < MaxServerTime
    /\ DueCalls = {}
    /\ server' = [server EXCEPT !.time = @ + 1]
    /\ ServerStep("server tick")

\* geocodeWithNominatim(query) up to its first await: the time since the
\* last request is measured and the request is sent at once or after a
\* setTimeout of the remaining time.
GeocodeWithNominatim(tool) ==
    /\ Len(server.calls) < MaxGeocodeCalls
    /\ LET timeSinceLastRequest == server.time - server.lastNominatimRequest
           limit == NOMINATIM_RATE_LIMIT_MS \div 100
       IN server' =
            IF timeSinceLastRequest < limit
            THEN [server EXCEPT
                    !.calls = Append(@, [tool |-> tool, waiting |-> TRUE,
                                         wakeAt |-> server.time + limit
                                                    - timeSinceLastRequest])]
            ELSE SendRequest([server EXCEPT
                    !.calls = Append(@, [tool |-> tool, waiting |-> FALSE,
                                         wakeAt |-> server.time])])
    /\ ServerStep("geocodeWithNominatim")

\* The setTimeout of call i resolves: the rest of geocodeWithNominatim.
GeocodeResumes(i) ==
    /\ i \in DueCalls
    /\ \A j \in DueCalls : server.calls[i].wakeAt <= server.calls[j].wakeAt
    /\ server' = SendRequest([server EXCEPT !.calls[i].waiting = FALSE])
    /\ ServerStep("geocodeWithNominatim resumes")

NextServer ==
    \/ ServerTick
    \/ \E tool \in GeocodingTools : GeocodeWithNominatim(tool)
    \/ \E i \in 1..MaxGeocodeCalls : GeocodeResumes(i)

SpecServer == Init /\ [][NextServer]_vars

(***************************************************************************)
(* The display mode of the weather app and of the globe app: requested by  *)
(* toggleFullscreen, decided by the host.                                  *)
(***************************************************************************)
MaxRequests == 2

DisplayModes == {"inline", "fullscreen", "pip"}

\* A host context that carries no displayMode.
NoDisplayMode == "none"

\* updateFullscreenButton(): the icon and the title follow
\* currentDisplayMode.
updateFullscreenButton(d) ==
    [d EXCEPT !.compressIcon = (d.currentDisplayMode = "fullscreen")]

toggleFullscreenOptimistic(d) ==
    LET newMode == IF d.currentDisplayMode = "fullscreen"
                   THEN "inline" ELSE "fullscreen"
    IN updateFullscreenButton(
         [d EXCEPT !.requests = Append(@, newMode),
                   !.currentDisplayMode = newMode])

\* toggleFullscreen() up to the await of requestDisplayMode: the mode to
\* request is computed and the request sent.
toggleFullscreen(d) ==
    LET newMode == IF d.currentDisplayMode = "fullscreen"
                   THEN "inline" ELSE "fullscreen"
    IN [d EXCEPT !.requests = Append(@, newMode)]

\* What app.onhostcontextchanged does with the displayMode of the context:
\* the weather app assigns it and updates the button, the globe app calls
\* handleDisplayModeChange, which returns when the mode is the current one.
hostContextChanged(a, d, mode) ==
    IF mode = NoDisplayMode THEN d
    ELSE IF a = "globe" /\ mode = d.currentDisplayMode THEN d
    ELSE updateFullscreenButton([d EXCEPT !.currentDisplayMode = mode])

\* What initialize() does with the host context after app.connect(): the
\* globe app updates its button whether or not a mode was carried.
hostContextAtConnect(a, d, mode) ==
    LET e == IF mode = NoDisplayMode THEN d
             ELSE [d EXCEPT !.currentDisplayMode = mode]
    IN IF a = "globe" \/ mode /= NoDisplayMode
       THEN updateFullscreenButton(e)
       ELSE e

\* The steps of the display mode leave everything else as it is.
DisplayStep(name, a, mode, lines) ==
    /\ lastOp' = Op(name, <<a, mode>>)
    /\ console' = lines
    /\ uncaught' = FALSE
    /\ sizeReports' = <<>>
    /\ unhandled' = 0
    /\ UNCHANGED <<phase, storeVars, viewVarsButReports, loaded, searches,
                   clock, streams, comparison, globe, server, calls>>

\* initialize(): connect, then the display mode of the host context.
DisplayConnect(a, mode) ==
    /\ ~display[a].connected
    /\ display' = [display EXCEPT
                     ![a] = [hostContextAtConnect(a, @, mode)
                               EXCEPT !.connected = TRUE]]
    /\ DisplayStep("display connect", a, mode, <<>>)

\* A click on fullscreen-btn, or Ctrl+Enter or Cmd+Enter.
ToggleFullscreen(a) ==
    /\ display[a].connected
    /\ Len(display[a].requests) < MaxRequests
    /\ display' = [display EXCEPT ![a] = toggleFullscreen(@)]
    /\ DisplayStep("toggleFullscreen", a, NoDisplayMode,
                   <<Line("info", "Requesting display mode")>>)

\* The keydown listener on Escape.
KeydownEscape(a) ==
    /\ display[a].connected
    /\ Len(display[a].requests) < MaxRequests
    /\ display' = [display EXCEPT
                     ![a] = IF @.currentDisplayMode = "fullscreen"
                            THEN toggleFullscreen(@)
                            ELSE @]
    /\ DisplayStep("keydown Escape", a, NoDisplayMode,
                   IF display[a].currentDisplayMode = "fullscreen"
                   THEN <<Line("info", "Requesting display mode")>>
                   ELSE <<>>)

\* The host fulfils the oldest requestDisplayMode call.
RequestDisplayModeResolved(a) ==
    /\ display[a].requests /= <<>>
    /\ display' = [display EXCEPT ![a].requests = Tail(@)]
    /\ DisplayStep("requestDisplayMode resolved", a,
                   Head(display[a].requests), <<>>)

\* The host rejects it: the catch block of toggleFullscreen logs.
RequestDisplayModeRejected(a) ==
    /\ display[a].requests /= <<>>
    /\ display' = [display EXCEPT ![a].requests = Tail(@)]
    /\ DisplayStep("requestDisplayMode rejected", a,
                   Head(display[a].requests),
                   <<Line("error", "Failed to change display mode")>>)

\* app.onhostcontextchanged, with or without a displayMode.
DisplayHostContextChanged(a, mode) ==
    /\ display[a].connected
    /\ display' = [display EXCEPT ![a] = hostContextChanged(a, @, mode)]
    /\ DisplayStep("display onhostcontextchanged", a, mode,
                   <<Line("info", "Host context changed")>>)

NextDisplay ==
    \/ \E a \in Apps, mode \in DisplayModes \cup {NoDisplayMode} :
          DisplayConnect(a, mode)
    \/ \E a \in Apps : ToggleFullscreen(a)
    \/ \E a \in Apps : KeydownEscape(a)
    \/ \E a \in Apps : RequestDisplayModeResolved(a)
    \/ \E a \in Apps : RequestDisplayModeRejected(a)
    \/ \E a \in Apps, mode \in DisplayModes \cup {NoDisplayMode} :
          DisplayHostContextChanged(a, mode)

SpecDisplay == Init /\ [][NextDisplay]_vars

(***************************************************************************)
(* Searches made from the UI while an earlier one is still in flight: the  *)
(* search button is disabled during a search, the Enter key and the quick- *)
(* city chips are not.                                                     *)
(***************************************************************************)
MaxCalls == 2

\* The locations searched for: the text of the input and a quick city.
RaceLocations == { <<"A", "b">>, <<"B", "1">> }

\* The weatherData of the show-weather result for a location.
ShowWeatherResult(location) == WeatherData(location, 0, 1)

\* searchLocation(location) up to the await of callServerTool.
SearchRequested(location) ==
    /\ phase = "ready"
    /\ Len(calls.inFlight) < MaxCalls
    /\ calls' = [calls EXCEPT
                   !.inFlight = Append(@, location),
                   !.last = location,
                   !.overlapped = (calls.inFlight /= <<>>),
                   !.reordered = IF calls.inFlight = <<>> THEN FALSE ELSE @]
    /\ lastOp' = Op("searchLocation", location)
    /\ console' = <<Line("info", "Searching for location")>>
    /\ uncaught' = FALSE
    /\ sizeReports' = <<>>
    /\ unhandled' = 0
    /\ UNCHANGED <<phase, storeVars, viewVarsButReports, loaded, searches,
                   clock, streams, comparison, globe, server, display>>

\* The callServerTool call i is answered: the rest of searchLocation, which
\* renders the weatherData of this answer and adds it to the history.
SearchAnswered(i) ==
    /\ i \in DOMAIN calls.inFlight
    /\ Len(pendingSetups) < MaxPendingSetups
    /\ calls' = [calls EXCEPT
                   !.inFlight = SubSeq(@, 1, i - 1)
                                \o SubSeq(@, i + 1, Len(@)),
                   !.reordered = @ \/ i > 1]
    /\ LET data == ShowWeatherResult(calls.inFlight[i])
           history == addToSearchHistory(persistedState, viewUUID,
                                         localStorage, quotaExceeded,
                                         data.location, now)
       IN /\ currentWeatherData' = data
          /\ pendingSetups' = Append(pendingSetups, data)
          /\ persistedState' = history.state
          /\ localStorage' = history.storage
          /\ dom' = IF history.threw
                    THEN showError(dom)
                    ELSE renderWeather(dom, persistedState, data)
          /\ console' = <<Line("info", "Weather rendered")>>
                        \o history.console
          /\ lastOp' = Op("searchLocation result", data.location)
    /\ uncaught' = FALSE
    /\ sizeReports' = <<>>
    /\ unhandled' = 0
    /\ UNCHANGED <<phase, viewUUID, quotaExceeded, now, isForecastVisible,
                   isLogExpanded, hostUp, inFlight, lastSentHeight,
                   hostHeight, loaded, searches, clock, streams, comparison,
                   globe, server, display>>

NextRace ==
    \/ Initialize
    \/ Tick
    \/ \E uuid \in {"u1"}, data \in {Null} : OnToolResult(uuid, data)
    \/ \E location \in RaceLocations : SearchRequested(location)
    \/ \E i \in 1..MaxCalls : SearchAnswered(i)
    \/ RunSetup

SpecRace == Init /\ [][NextRace]_vars

(***************************************************************************)
(* Properties.                                                             *)
(***************************************************************************)
MutatingOps == {"addToSearchHistory", "addToFavorites", "removeFromFavorites"}

\* What is stored under the key of the current view.
Stored == localStorage[StorageKey(viewUUID)]

\* The operation last executed was an addToFavorites call that found the
\* location among the favorites.
DuplicateReported ==
    console = <<Line("warning", "Location already in favorites")>>

\* C1: once the modal of a stream has been removed, no phase handler of
\* that stream runs any more: no phase is appended, no progress is set and
\* no 'Stream phase received' line is logged after the dismissal.
C1_NoPhaseAfterDismissal ==
    \A k \in DOMAIN streams : streams[k].late = {}

\* C2: the search history never holds two entries whose locations are equal
\* ignoring case, is ordered most recent first (timestamps do not increase
\* along the list, and the location of the latest addToSearchHistory call
\* is at index 0), and never holds more than 10 entries.
C2_HistoryInvariant ==
    LET h == persistedState.searchHistory
    IN /\ Len(h) <= 10
       /\ \A i, j \in DOMAIN h :
             i < j => /\ toLowerCase(h[i].location) /= toLowerCase(h[j].location)
                      /\ h[i].timestamp >= h[j].timestamp
       /\ lastOp.op = "addToSearchHistory" =>
             /\ h /= <<>>
             /\ h[1].location = lastOp.location
             /\ h[1].timestamp = now

\* C2 witness: the eleventh place has pushed the oldest entry out, a place
\* of the history has been searched again in another spelling, and time
\* has passed between the oldest and the newest entry.
C2_Witness ==
    LET h == persistedState.searchHistory
    IN /\ lastOp.op = "addToSearchHistory"
       /\ Len(h) = 10
       /\ searches.calls - searches.repeats = 11
       /\ searches.repeats >= 1
       /\ h[1].timestamp > h[10].timestamp
       /\ viewUUID /= NoUUID

\* C3: the favorites never hold two entries whose locations are equal
\* ignoring case.
C3_FavoritesUnique ==
    \A i, j \in DOMAIN persistedState.favorites :
        i < j => toLowerCase(persistedState.favorites[i].location)
                 /= toLowerCase(persistedState.favorites[j].location)

\* C3 witness: with two favorites in the list and the persisted state
\* loaded, addToFavorites was called with another spelling of one of them.
C3_Witness ==
    /\ lastOp.op = "addToFavorites"
    /\ viewUUID /= NoUUID
    /\ Len(persistedState.favorites) = 2
    /\ \E i \in DOMAIN persistedState.favorites :
          /\ persistedState.favorites[i].location /= lastOp.location
          /\ SameIgnoringCase(persistedState.favorites[i].location,
                              lastOp.location)

\* C4: after addToFavorites(L1, ...) isFavorited(L2) is true for every L2
\* that differs from L1 only in letter case, and after
\* removeFromFavorites(L2) isFavorited(L1) is false for every such L1.
C4_CaseInsensitiveLookup ==
    \A l \in Locations :
        SameIgnoringCase(l, lastOp.location) =>
            /\ lastOp.op = "addToFavorites" => isFavorited(persistedState, l)
            /\ lastOp.op = "removeFromFavorites" =>
                  ~isFavorited(persistedState, l)

\* C4 witness: a location was added under one spelling while another
\* spelling of it exists, with other coordinates than an earlier favorite.
C4_Witness ==
    /\ lastOp.op = "addToFavorites"
    /\ ~DuplicateReported
    /\ \E l \in Locations :
          l /= lastOp.location /\ SameIgnoringCase(l, lastOp.location)
    /\ \E i, j \in DOMAIN persistedState.favorites :
          /\ persistedState.favorites[i].location = lastOp.location
          /\ persistedState.favorites[j].latitude
                /= persistedState.favorites[i].latitude

\* C5: addToFavorites with a location that is already a favorite (ignoring
\* case) changes neither the favorites nor the storage, writes a warning
\* and lets no exception escape.
C5_ReAddIsNoOp ==
    [][ \A l \in Locations :
          (lastOp' = Op("addToFavorites", l) /\ isFavorited(persistedState, l))
          => /\ persistedState' = persistedState
             /\ localStorage' = localStorage
             /\ \E i \in DOMAIN console' : console'[i].level = "warning"
             /\ ~uncaught' ]_vars

\* C5 witness: the re-added location is spelled differently from the
\* favorite it matches, and the stored document is behind the memory, so
\* that a save would have changed the storage.
C5_Witness ==
    /\ lastOp.op = "addToFavorites"
    /\ DuplicateReported
    /\ viewUUID /= NoUUID
    /\ ~quotaExceeded
    /\ Stored /= JSONstringify(persistedState)
    /\ \E i \in DOMAIN persistedState.favorites :
          /\ persistedState.favorites[i].location /= lastOp.location
          /\ SameIgnoringCase(persistedState.favorites[i].location,
                              lastOp.location)

\* Nothing is stored, or what is stored is not a JSON object.
AbsentOrCorrupt(stored) ==
    \/ stored \in {Null, EmptyText, InvalidText}
    \/ stored.doc.t /= "object"

\* C6: loadPersistedState returns the default state and does not throw
\* when no view identifier is set, when nothing is stored under the key of
\* the view, and when the stored string is not JSON or is JSON of null or
\* of a value that is not an object.
C6_LoadDefaults ==
    (/\ lastOp.op = "loadPersistedState"
     /\ \/ viewUUID = NoUUID
        \/ AbsentOrCorrupt(Stored))
    => loaded = [threw |-> FALSE,
                 state |-> [favorites |-> <<>>, searchHistory |-> <<>>,
                            lastLocation |-> Undefined]]

\* C6 witness: the load of a view whose stored string is not JSON.
C6_Witness ==
    /\ lastOp.op = "loadPersistedState"
    /\ viewUUID = "u1"
    /\ Stored = InvalidText
    /\ loaded.state.favorites = <<>>

\* A stored JSON object with a field of the wrong shape.
WrongShaped(stored) ==
    /\ stored \notin {Null, EmptyText, InvalidText}
    /\ stored.doc.t = "object"
    /\ \/ stored.doc.favorites.t \notin {"absent", "array"}
       \/ stored.doc.searchHistory.t \notin {"absent", "array"}
       \/ stored.doc.lastLocation.t \notin {"absent", "string"}

C8_BestEffortSave ==
    [][ \A l \in Locations :
          (/\ quotaExceeded
           /\ viewUUID /= NoUUID
           /\ lastOp'.op \in MutatingOps
           /\ lastOp'.location = l)
          => /\ ~uncaught'
             /\ localStorage' = localStorage
             /\ lastOp'.op = "addToSearchHistory" =>
                   /\ persistedState'.searchHistory /= <<>>
                   /\ persistedState'.searchHistory[1].location = l
             /\ lastOp'.op = "addToFavorites" =>
                   \E i \in DOMAIN persistedState'.favorites :
                       SameIgnoringCase(
                           persistedState'.favorites[i].location, l)
             /\ lastOp'.op = "removeFromFavorites" =>
                   \A i \in DOMAIN persistedState'.favorites :
                       ~SameIgnoringCase(
                           persistedState'.favorites[i].location, l) ]_vars

\* C8 witness: a favorite was added while the quota was exceeded; it is in
\* memory and not in the stored document.
C8_Witness ==
    /\ lastOp.op = "addToFavorites"
    /\ ~DuplicateReported
    /\ quotaExceeded
    /\ viewUUID /= NoUUID
    /\ ~uncaught
    /\ isFavorited(persistedState, lastOp.location)
    /\ ~isFavorited(loadPersistedState(viewUUID, localStorage).state,
                    lastOp.location)

\* C9: with a view identifier set and the storage accepting writes, after
\* each mutating operation the document stored under the key of the view
\* reads back as the in-memory state; and saving a state a second time
\* leaves the storage as the first save left it.
C9_SavedOnEveryMutation ==
    /\ (/\ viewUUID /= NoUUID
        /\ ~quotaExceeded
        /\ lastOp.op \in MutatingOps
        /\ ~DuplicateReported)
       => /\ Stored /= Null
          /\ loadPersistedState(viewUUID, localStorage).state = persistedState
    /\ LET once  == savePersistedState(persistedState, viewUUID,
                                       localStorage, FALSE).storage
           twice == savePersistedState(persistedState, viewUUID, once,
                                       FALSE).storage
       IN twice = once

\* C9 witness: a favorite was removed, another one remains, and both the
\* memory and the stored document hold the remaining one only.
C9_Witness ==
    /\ lastOp.op = "removeFromFavorites"
    /\ viewUUID /= NoUUID
    /\ ~quotaExceeded
    /\ Len(persistedState.favorites) = 1
    /\ persistedState.searchHistory /= <<>>
    /\ Stored /= Null
    /\ Stored.doc.favorites.items = persistedState.favorites

\* C10: once initialized, the height last sent to the host is
\* 740 + (210 if the forecast is visible) + (349 if the log is expanded,
\* else 50); the first report is 790; a step that flips isForecastVisible
\* changes the height sent by 210 and one that flips isLogExpanded by 299.
C10_ReportedHeight ==
    /\ [](phase = "ready" =>
            lastSentHeight = HEIGHT_BASE
                + (IF isForecastVisible THEN HEIGHT_FORECAST ELSE 0)
                + (IF isLogExpanded THEN HEIGHT_LOG_EXPANDED
                                    ELSE HEIGHT_LOG_COLLAPSED))
    /\ []((phase = "ready" /\ lastOp.op = "initialize") =>
            lastSentHeight = HEIGHT_BASE + HEIGHT_LOG_COLLAPSED)
    /\ [][ /\ (phase = "ready" /\ isForecastVisible' /= isForecastVisible) =>
                lastSentHeight' - lastSentHeight =
                    IF isForecastVisible' THEN HEIGHT_FORECAST
                                          ELSE 0 - HEIGHT_FORECAST
           /\ (phase = "ready" /\ isLogExpanded' /= isLogExpanded) =>
                lastSentHeight' - lastSentHeight =
                    IF isLogExpanded'
                    THEN HEIGHT_LOG_EXPANDED - HEIGHT_LOG_COLLAPSED
                    ELSE HEIGHT_LOG_COLLAPSED - HEIGHT_LOG_EXPANDED ]_vars

\* C10 witness: the forecast was toggled open with the log expanded, and
\* the height of both was sent.
C10_Witness ==
    /\ lastOp.op = "forecast toggle"
    /\ isForecastVisible
    /\ isLogExpanded
    /\ sizeReports = <<HEIGHT_BASE + HEIGHT_FORECAST + HEIGHT_LOG_EXPANDED>>
    /\ lastSentHeight = HEIGHT_BASE + HEIGHT_FORECAST + HEIGHT_LOG_EXPANDED

\* Some line of the console reports a failure.
FailureLogged(lines) ==
    \E i \in DOMAIN lines : lines[i].level \in {"error", "warn", "warning"}

\* C11: a click on the log header, or on the forecast button with its one
\* listener, while the host does not receive the size report flips the flag
\* and the class of the section, writes a line that reports a failure, and
\* leaves neither an exception nor a rejected promise unhandled.
C11_ToggleUnderFailingHost ==
    [][ (/\ ~hostUp
         /\ \/ lastOp'.op = "log toggle"
            \/ lastOp'.op = "forecast toggle" /\ dom.forecastHandlers = 1)
        => /\ lastOp'.op = "log toggle" =>
                /\ isLogExpanded' = ~isLogExpanded
                /\ dom'.logCollapsed = ~isLogExpanded'
           /\ lastOp'.op = "forecast toggle" =>
                /\ isForecastVisible' = ~isForecastVisible
                /\ dom'.forecastContentVisible = isForecastVisible'
           /\ FailureLogged(consoleOutput')
           /\ ~uncaught'
           /\ unhandled' = 0 ]_vars

\* C12: each firing of a phase timer delivers one more phase of its stream,
\* and the progress then shown in the modal the stream writes to is the
\* number of phases delivered divided by the number of phases of the list.
C12_ProgressCounter ==
    [][ lastOp'.op = "stream phase" =>
          \E k \in DOMAIN streams :
             /\ Len(streams'[k].delivered) = Len(streams[k].delivered) + 1
             /\ LET shown == streams'[streams[k].target].progress
                IN shown[1] * Len(streams[k].updates)
                      = Len(streams'[k].delivered) * shown[2] ]_vars

\* C13: the modal of a stream that has started its timers reads 'Analysis
\* complete' exactly when no phase of the list is pending.
C13_CompleteWhenAllDelivered ==
    \A k \in DOMAIN streams :
        (/\ streams[k].status = "streaming"
         /\ streams[k].updates /= <<>>
         /\ \A j \in DOMAIN streams :
               streams[j].status = "streaming" => streams[j].target = j)
        => (streams[k].text = "Analysis complete" <=> streams[k].pending = {})

\* C14: a stream whose tool call was rejected, or whose result carried no
\* array of updates, is failed for good: an alert shows the error, the one
\* tool call of the start is the only one, no timer is armed, no phase is
\* rendered and no modal is shown; the failure starts no other stream, and
\* a stream is only ever started by a click on the stream button.
C14_FailedStart ==
    /\ [](\A k \in DOMAIN streams :
             streams[k].status = "failed" =>
                /\ streams[k].alert \in StreamErrors
                /\ streams[k].calls = 1
                /\ streams[k].pending = {}
                /\ streams[k].delivered = <<>>
                /\ streams[k].container = <<>>
                /\ ~streams[k].attached)
    /\ [][ /\ lastOp'.op = "getWeatherStream failed" =>
                /\ Len(streams') = Len(streams)
                /\ \E k \in DOMAIN streams :
                      /\ streams[k].status = "requesting"
                      /\ streams'[k].status = "failed"
                      /\ streams'[k].calls = streams[k].calls
           /\ \A k \in DOMAIN streams :
                 streams[k].status = "failed" => streams'[k] = streams[k]
           /\ Len(streams') > Len(streams) =>
                 lastOp'.op = "getWeatherStream" ]_vars

\* C14 witness: the result of the tool call carried no array of updates,
\* and the stream has failed with that message.
C14_Witness ==
    /\ lastOp.op = "getWeatherStream failed"
    /\ \E k \in DOMAIN streams :
          /\ streams[k].status = "failed"
          /\ streams[k].alert = "No stream updates in response"
    /\ console = <<Line("error", "Failed to start weather stream")>>

\* C15: a removal from a comparison of three or four locations leaves a
\* comparison of the others, in their order; a removal from a comparison of
\* two locations leaves the single view of the other one; and a comparison
\* grid never has fewer than two cards.
C15_ComparisonCollapse ==
    /\ [](comparison.mode = "comparison" =>
             /\ Len(comparison.set) >= 2
             /\ Len(comparison.cards) = Len(comparison.set))
    /\ [](comparison.mode = "single" => comparison.cards = <<>>)
    /\ [][ (/\ lastOp'.op = "removeLocation"
            /\ \E i \in DOMAIN comparison.set :
                  comparison.set[i] = lastOp'.location)
           => /\ Len(comparison.set) >= 3 =>
                   /\ comparison'.mode = "comparison"
                   /\ comparison'.set =
                         RemoveFirst(comparison.set, lastOp'.location)
              /\ Len(comparison.set) = 2 =>
                   /\ comparison'.mode = "single"
                   /\ comparison'.shown \in
                         { comparison.set[i] : i \in DOMAIN comparison.set }
                   /\ <<comparison'.shown>> =
                         RemoveFirst(comparison.set, lastOp'.location) ]_vars

\* C15 witness: the second removal from a comparison of distinct locations
\* has left the single view of the last one of the list.
C15_Witness ==
    /\ lastOp.op = "removeLocation"
    /\ comparison.mode = "single"
    /\ comparison.shown = <<"C">>
    /\ lastOp.location = <<"A">>
    /\ persistedState.favorites /= <<>>

\* C16: startComparison with fewer than 2 or more than 4 locations changes
\* neither the comparison (set, cards, mode, display mode) nor the
\* favorites nor the storage, and writes one warning; with 2 to 4
\* locations the set is the list and the grid has one card per entry, in
\* the order of the list.
C16_StartPrecondition ==
    [][ lastOp'.op = "startComparison" =>
          LET locations == lastOp'.location
          IN IF Len(locations) < 2 \/ Len(locations) > 4
             THEN /\ comparison' = comparison
                  /\ persistedState' = persistedState
                  /\ localStorage' = localStorage
                  /\ Len(console') = 1
                  /\ console'[1].level = "warning"
                  /\ ~uncaught'
             ELSE /\ comparison'.mode = "comparison"
                  /\ comparison'.set = locations
                  /\ Len(comparison'.cards) = Len(locations)
                  /\ \A i \in DOMAIN locations :
                        comparison'.cards[i].location = locations[i] ]_vars

\* C16 witness: a list of five locations was refused while a comparison of
\* two was shown and one of them was a favorite.
C16_Witness ==
    /\ lastOp.op = "startComparison"
    /\ Len(lastOp.location) = 5
    /\ comparison.mode = "comparison"
    /\ Len(comparison.set) = 2
    /\ persistedState.favorites /= <<>>

\* C17: once viewUUID is set no step changes it; it is only ever set by a
\* tool result, which then replaces the in-memory state by the state loaded
\* from the storage; and a tool result that arrives with viewUUID set loads
\* nothing: it leaves the favorites as they are in memory, and the whole
\* state when it carries no weather data.
C17_ViewUUIDWriteOnce ==
    [][ /\ viewUUID /= NoUUID => viewUUID' = viewUUID
        /\ viewUUID' /= viewUUID =>
              /\ lastOp'.op = "ontoolresult"
              /\ persistedState'.favorites =
                    loadPersistedState(viewUUID', localStorage).state.favorites
        /\ (viewUUID /= NoUUID /\ lastOp'.op = "ontoolresult") =>
              /\ persistedState'.favorites = persistedState.favorites
              /\ lastOp'.location = NoLocation =>
                    persistedState' = persistedState ]_vars

\* C17 witness: a tool result has arrived in a view whose identifier was
\* set earlier, while the storage holds a state under each identifier and
\* the favorites in memory are not those stored under the identifier of
\* the view (a write had failed), so that a second load would show.
C17_Witness ==
    /\ lastOp.op = "ontoolresult"
    /\ viewUUID = "u1"
    /\ localStorage[StorageKey("u2")] /= Null
    /\ Stored /= Null
    /\ persistedState.favorites
          /= loadPersistedState(viewUUID, localStorage).state.favorites

\* C18: once the globe app has received a view identifier, viewUUID is
\* that identifier after every later tool result, and each write of the
\* camera state goes to the key of that first identifier.
C18_GlobeViewUUIDHeld ==
    /\ [](globe.firstUUID /= NoUUID => globe.viewUUID = globe.firstUUID)
    /\ []((globe.firstUUID /= NoUUID
           /\ lastOp.op = "globe persistViewState")
          => globe.persistedWith = globe.firstUUID)

\* C19: once its click handler is attached, a click on the favorite button
\* of the displayed location inverts isFavorited of that location and the
\* star of the button, and a second click right after it restores both.
C19_FavoriteRoundTrip ==
    [][ (/\ lastOp'.op = "favorite click"
         /\ currentWeatherData /= Null
         /\ dom.favoriteHandlers /= <<>>) =>
          LET l == currentWeatherData.location
              again == FavoriteListeners(
                         [state |-> persistedState',
                          storage |-> localStorage',
                          console |-> <<>>, threw |-> FALSE,
                          star |-> dom'.star],
                         dom'.favoriteHandlers)
          IN /\ isFavorited(persistedState', l) = ~isFavorited(persistedState, l)
             /\ dom'.star = ~dom.star
             /\ isFavorited(again.state, l) = isFavorited(persistedState, l)
             /\ again.star = dom.star ]_vars

\* C20: a click on the favorite button (its handler attached) flips the
\* favorite status of the displayed location and leaves the visibility
\* flags and the height last sent; a click on the forecast button (its
\* handler attached) flips isForecastVisible, a click on the log header
\* flips isLogExpanded, each leaves the other flag, the favorites and the
\* history, and the height it sends is that of the two flags. The three
\* clicks then lead to the same state in every order.
C20_IndependentControls ==
    [][ /\ (/\ lastOp'.op = "favorite click"
            /\ currentWeatherData /= Null
            /\ dom.favoriteHandlers /= <<>>) =>
              /\ isFavorited(persistedState', currentWeatherData.location)
                    = ~isFavorited(persistedState,
                                   currentWeatherData.location)
              /\ isForecastVisible' = isForecastVisible
              /\ isLogExpanded' = isLogExpanded
              /\ lastSentHeight' = lastSentHeight
        /\ (lastOp'.op = "forecast toggle" /\ dom.forecastHandlers > 0) =>
              /\ isForecastVisible' = ~isForecastVisible
              /\ isLogExpanded' = isLogExpanded
              /\ persistedState' = persistedState
              /\ localStorage' = localStorage
              /\ lastSentHeight' = totalHeight(isForecastVisible',
                                               isLogExpanded')
        /\ lastOp'.op = "log toggle" =>
              /\ isLogExpanded' = ~isLogExpanded
              /\ isForecastVisible' = isForecastVisible
              /\ persistedState' = persistedState
              /\ localStorage' = localStorage
              /\ lastSentHeight' = totalHeight(isForecastVisible',
                                               isLogExpanded') ]_vars

\* C21: any two requests sent to Nominatim are at least one second apart.
C21_NominatimRateLimit ==
    \A i, j \in DOMAIN server.requests :
        i < j => server.requests[j] - server.requests[i] >= 10

\* C22: once app.onteardown has run, no stream phase timer of the weather
\* app and no persist timer of the globe app is pending.
C22_TeardownClearsTimers ==
    /\ phase = "torn down" => PendingTimers = {}
    /\ globe.tornDown => ~globe.persistTimer

\* C23: while a dashboard is rendered, its forecast section has the class
\* visible exactly when isForecastVisible is true.
C23_ForecastShownMatchesFlag ==
    (phase = "ready" /\ dom.rendered) =>
        (dom.forecastContentVisible <=> isForecastVisible)

\* C24: the display mode follows the host only. In both apps
\* currentDisplayMode changes only in a step that handles a host context
\* (at connect or in onhostcontextchanged) carrying that mode;
\* toggleFullscreen requests inline when the mode is fullscreen and
\* fullscreen otherwise; Escape sends a request only in fullscreen mode;
\* a rejected request is logged and leaves mode and button as they were.
C24_DisplayModeFollowsHost ==
    [][\A a \in Apps :
         LET d == display[a]
             e == display'[a]
             target == IF d.currentDisplayMode = "fullscreen"
                       THEN "inline" ELSE "fullscreen"
         IN /\ e.currentDisplayMode /= d.currentDisplayMode =>
                 /\ lastOp'.op \in {"display connect",
                                    "display onhostcontextchanged"}
                 /\ lastOp'.location = <<a, e.currentDisplayMode>>
            /\ (lastOp'.op = "toggleFullscreen" /\ lastOp'.location[1] = a)
                 => e.requests = Append(d.requests, target)
            /\ (lastOp'.op = "keydown Escape" /\ lastOp'.location[1] = a)
                 => e.requests = IF d.currentDisplayMode = "fullscreen"
                                 THEN Append(d.requests, "inline")
                                 ELSE d.requests
            /\ (lastOp'.op = "requestDisplayMode rejected"
                /\ lastOp'.location[1] = a)
                 => /\ e.currentDisplayMode = d.currentDisplayMode
                    /\ e.compressIcon = d.compressIcon
                    /\ console' =
                         <<Line("error", "Failed to change display mode")>>
      ]_vars

\* A request of the globe app made in fullscreen mode has been rejected
\* while a request of the weather app is still unanswered.
C24_Witness ==
    /\ lastOp.op = "requestDisplayMode rejected"
    /\ lastOp.location = <<"globe", "inline">>
    /\ display["globe"].currentDisplayMode = "fullscreen"
    /\ display["globe"].compressIcon
    /\ display["weather"].requests /= <<>>

\* C25: camera persistence is debounced. At most one persist timer is
\* pending; each moveEnd replaces the pending timer by one due 500 ms
\* later; localStorage.setItem is called only by a timer firing at least
\* 500 ms after the last move and only with a view identifier set, and the
\* stored view changes in no other step.
C25_DebouncedPersistence ==
    /\ [](Len(globe.persistDue) <= 1)
    /\ [][/\ lastOp'.op = "globe moveEnd" =>
               globe'.persistDue = <<globe.time + 5>>
          /\ globe'.storage /= globe.storage =>
               lastOp'.op = "globe persistViewState"
          /\ lastOp'.op = "globe persistViewState" =>
               IF globe.viewUUID = NoUUID
               THEN /\ globe'.storage = globe.storage
                    /\ globe'.persistedWith = NoUUID
               ELSE globe'.persistedWith /= NoUUID =>
                      /\ globe.time - globe.lastMove >= 5
                      /\ globe'.storage =
                           [globe.storage EXCEPT
                              ![globe.viewUUID] = GlobeStored(globe.camera)]
         ]_vars

\* A view has been written by the timer of a move that cancelled the timer
\* of an earlier move.
C25_Witness ==
    /\ lastOp.op = "globe persistViewState"
    /\ globe.persistedWith /= NoUUID
    /\ globe.cleared
    /\ globe.storage[globe.persistedWith] = GlobeStored(globe.camera)

\* C26: the latest search wins. When searches have been in flight together
\* and all of them have been answered, the weather displayed and the head
\* of the search history are those of the search requested last.
C26_LatestSearchWins ==
    (calls.overlapped /\ calls.inFlight = <<>>) =>
        /\ currentWeatherData /= Null
        /\ currentWeatherData.location = calls.last
        /\ persistedState.searchHistory /= <<>>
        /\ persistedState.searchHistory[1].location = calls.last

\* C27: nothing added in the session is lost on the first load. When the
\* first tool result carrying a view identifier is handled, every favorite
\* and every search-history entry that was in memory before is in memory
\* afterwards.
C27_NoInSessionLoss ==
    [][(lastOp'.op = "ontoolresult" /\ viewUUID = NoUUID
        /\ viewUUID' /= NoUUID) =>
          /\ \A i \in DOMAIN persistedState.favorites :
               \E j \in DOMAIN persistedState'.favorites :
                  persistedState'.favorites[j].location
                    = persistedState.favorites[i].location
          /\ \A i \in DOMAIN persistedState.searchHistory :
               \E j \in DOMAIN persistedState'.searchHistory :
                  persistedState'.searchHistory[j].location
                    = persistedState.searchHistory[i].location
      ]_vars

\* C28: one handler per control. Once the deferred setup callbacks of the
\* renderWeather calls made so far have run, the displayed forecast-toggle
\* button and the displayed favorite button carry exactly one click
\* listener each, and a click on the forecast toggle then flips
\* isForecastVisible once and sends one height report.
C28_OneHandlerPerControl ==
    /\ []((dom.rendered /\ pendingSetups = <<>>) =>
            /\ dom.forecastHandlers = 1
            /\ Len(dom.favoriteHandlers) = 1)
    /\ [][(lastOp'.op = "forecast toggle" /\ pendingSetups = <<>>) =>
            /\ isForecastVisible' = ~isForecastVisible
            /\ Len(sizeReports') = 1]_vars

\* C29: streams are isolated. The elements a stream writes to are those of
\* its own modal, and the phase list of a modal holds phases of its own
\* stream only.
C29_StreamIsolation ==
    \A k \in DOMAIN streams :
        /\ streams[k].status = "streaming" => streams[k].target = k
        /\ \A i \in DOMAIN streams[k].container :
              streams[k].container[i][1] = k

\* C30: the loading indicator of the globe app is eventually hidden. Once
\* the app is initialised and connected, the indicator is eventually
\* hidden in every execution.
C30_LoadingEventuallyHidden ==
    globe.connected ~> globe.loadingHidden

=========================================================================
